---------------------------- MODULE Spec2Model ----------------------------
(***************************************************************************)
(* A model of ops_reach: the download routine of                           *)
(* ops_reach/instruments/methods/reach.py and the l1b load path of         *)
(* ops_reach/instruments/aero_reach.py (scrub_l1b, generate_header,        *)
(* generate_metadata).                                                     *)
(*                                                                         *)
(* Python strings are TLA+ strings; TLC evaluates Len, SubSeq and \o on    *)
(* them, so the string conversions of the code (format, slice, replace,    *)
(* join) are computed character by character.                              *)
(***************************************************************************)
EXTENDS Integers, Sequences, FiniteSets, TLC

VARIABLES
    \* ---- download (reach.py 483-539)
    dateArray,   \* the date_array argument: a sequence of dates
    instId,      \* the inst_id argument
    dataPath,    \* the data_path argument
    remote,      \* what the archive host answers, per URL asked so far
    dlArray,     \* dl_array: the months the loop iterates over
    idx,         \* position of the loop in dlArray (1-based)
    fetched,     \* the requests.get calls of this call, in order
    extracted,   \* the open_zip.extract calls of this call
    disk,        \* every file extracted so far, by any call
    tempDir,     \* the state of temp_dir
    pc,          \* where the call is
    prev,        \* what the previous call of download fetched and extracted
    \* ---- load (aero_reach.py 65-126)
    fnames,      \* the fnames argument: a sequence of paths
    tag,         \* the tag argument
    loadInstId,  \* the inst_id argument of load
    pods,        \* the rows of pod_serial_numbers.csv
    clock,       \* the clock that generate_header reads
    readLog,     \* the paths read so far, in order
    data,        \* the data variable of load
    header,      \* the header_data variable of load
    meta,        \* the meta variable of load
    lpc,         \* where the call of load is
    lerr,        \* the error load raised, and the statement that raised it
    \* ---- scrub_l1b called on its own (reach.py 47-98)
    scIn,        \* the data argument
    scOut,       \* the table returned
    scErr,       \* the error raised
    scPc,        \* where the call is
    \* ---- an annotation exported by netcdf_gen and loaded again
    trIn,        \* the annotation of a field in the record exported
    trFile,      \* the attributes of the field in the file
    trOut,       \* the annotation of the field in the record loaded
    trPc,        \* where the round trip is
    \* ---- clean (aero_reach.py 150-161)
    clLevel,     \* self.clean_level
    clData,      \* self.data: the columns, each with its key and values
    clFill,      \* the fill value self.meta holds for each column
    clIdx,       \* position of the loop in the columns (1-based)
    clPc,        \* where the call is
    clBefore     \* the data and fill values when clean was called

dlVars == <<dateArray, instId, dataPath, remote, dlArray, idx, fetched,
            extracted, disk, tempDir, pc, prev>>

ldVars == <<fnames, tag, loadInstId, pods, clock, readLog, data, header, meta,
            lpc, lerr>>

scVars == <<scIn, scOut, scErr, scPc>>

\* The variables of the functions called on their own.
trVars == <<trIn, trFile, trOut, trPc>>

clVars == <<clLevel, clData, clFill, clIdx, clPc, clBefore>>

fnVars == <<scVars, trVars, clVars>>

vars == <<dlVars, ldVars, fnVars>>

NoCall == [pc |-> "none", fetched |-> <<>>, extracted |-> {}]

NoData == [cols |-> << >>, rows |-> << >>, index |-> << >>]

NoMeta == [header |-> << >>, data |-> << >>]

NoError == [at |-> "", err |-> ""]

NoTime == [year |-> 0, month |-> 0, day |-> 0, hour |-> 0, minute |-> 0, second |-> 0]

\* No call of download is in progress.
DownloadIdle ==
    /\ dateArray = << >>
    /\ instId = ""
    /\ dataPath = ""
    /\ remote = << >>
    /\ dlArray = << >>
    /\ idx = 1
    /\ fetched = << >>
    /\ extracted = {}
    /\ disk = {}
    /\ tempDir = "none"
    /\ pc = "none"
    /\ prev = NoCall

\* No call of scrub_l1b on its own is in progress.
ScrubIdle ==
    /\ scIn = NoData
    /\ scOut = NoData
    /\ scErr = ""
    /\ scPc = "none"

\* No export and load of an annotation is in progress.
TranslateIdle ==
    /\ trIn = << >>
    /\ trFile = << >>
    /\ trOut = << >>
    /\ trPc = "none"

\* No call of clean is in progress.
CleanIdle ==
    /\ clLevel = ""
    /\ clData = << >>
    /\ clFill = << >>
    /\ clIdx = 1
    /\ clPc = "none"
    /\ clBefore = [data |-> << >>, fill |-> << >>]

FnIdle == ScrubIdle /\ TranslateIdle /\ CleanIdle

\* No call of load is in progress.
LoadIdle ==
    /\ fnames = << >>
    /\ tag = ""
    /\ loadInstId = ""
    /\ pods = << >>
    /\ clock = NoTime
    /\ readLog = << >>
    /\ data = NoData
    /\ header = << >>
    /\ meta = NoMeta
    /\ lpc = "none"
    /\ lerr = NoError

----------------------------------------------------------------------------
\* Bounds of the model

\* The longest date_array.
MaxDates == 3

\* The longest fnames.
MaxFiles == 2

\* The most lines of a table handed to scrub_l1b.
MaxRows == 2

----------------------------------------------------------------------------
\* Strings

Digits == "0123456789"

Digit(d) == SubSeq(Digits, d + 1, d + 1)

IsDigit(c) == \E d \in 0..9 : Digit(d) = c

DigitVal(c) == CHOOSE d \in 0..9 : Digit(d) = c

CharAt(s, i) == SubSeq(s, i, i)

\* str(n) of a natural number.
RECURSIVE StrOfNat(_)
StrOfNat(n) == IF n < 10 THEN Digit(n)
               ELSE StrOfNat(n \div 10) \o Digit(n % 10)

\* A format field of width w, filled on the left with c ({:4d}, {:02d}).
RECURSIVE PadLeft(_, _, _)
PadLeft(s, w, c) == IF Len(s) >= w THEN s ELSE PadLeft(c \o s, w, c)

IsDigits(s) == Len(s) > 0 /\ \A i \in 1..Len(s) : IsDigit(CharAt(s, i))

\* int(s) of a string of digits.
RECURSIVE IntOfDigits(_)
IntOfDigits(s) == IF Len(s) = 0 THEN 0
                  ELSE 10 * IntOfDigits(SubSeq(s, 1, Len(s) - 1))
                       + DigitVal(CharAt(s, Len(s)))

\* s[a:b] of Python for negative a and b (counted from the end, clamped).
Max0(n) == IF n < 0 THEN 0 ELSE n

NegSlice(s, a, b) == SubSeq(s, Max0(Len(s) + a) + 1, Max0(Len(s) + b))

StartsWith(s, p) == Len(s) >= Len(p) /\ SubSeq(s, 1, Len(p)) = p

EndsWith(s, p) == Len(s) >= Len(p)
                  /\ SubSeq(s, Len(s) - Len(p) + 1, Len(s)) = p

\* os.path.join(a, b).
PathJoin(a, b) == IF StartsWith(b, "/") THEN b
                  ELSE IF a = "" \/ EndsWith(a, "/") THEN a \o b
                  ELSE a \o "/" \o b


----------------------------------------------------------------------------
\* The inputs of download

\* Dates that may occur in date_array: two in one month, one in another
\* month of the same year, one in the first month of another year.
Dates == { [year |-> 2017, month |-> 2,  day |-> 24],
           [year |-> 2017, month |-> 2,  day |-> 25],
           [year |-> 2017, month |-> 12, day |-> 1],
           [year |-> 2018, month |-> 2,  day |-> 3] }

RECURSIVE SeqsUpTo(_, _)
SeqsUpTo(S, n) == IF n = 0 THEN { <<>> }
                  ELSE LET shorter == SeqsUpTo(S, n - 1)
                       IN  shorter \cup { Append(q, x) : q \in shorter, x \in S }

\* The date arrays: up to MaxDates different dates, in any order.
DateArrays == { q \in SeqsUpTo(Dates, MaxDates) :
                  \A i, j \in 1..Len(q) : i # j => q[i] # q[j] }

InstIds == { "105", "113" }

DataPaths == { "dl/l1b/105/", "dl/l1c/113/" }

\* Names an archive may hold: two data files of two vehicles, and a member
\* that is no data file.
FileNames == << "reach.20170224.vid-105.l1b.v3.csv",
               "README.txt",
               "reach.20170224.vid-113.l1b.v3.csv" >>

\* The members of FileNames at the positions in keep, in their order.
RECURSIVE Pick(_, _)
Pick(q, keep) == IF q = << >> THEN << >>
                 ELSE LET rest == Pick(SubSeq(q, 1, Len(q) - 1), keep)
                      IN  IF Len(q) \in keep THEN Append(rest, q[Len(q)]) ELSE rest

\* The name lists (ZipFile.namelist) of the archives: every selection of
\* FileNames.
NameLists == { Pick(FileNames, keep) : keep \in SUBSET (1..Len(FileNames)) }

\* What requests.get and the archive handling can meet:
\*   notfound  status 404
\*   archive   status 200, the body a zip archive with these names
\*   notzip    status 500, the body no zip archive (zipfile.ZipFile raises)
\*   connerr   requests.get raises
Responses == { [kind |-> k, names |-> <<>>] : k \in {"notfound", "notzip", "connerr"} }
             \cup { [kind |-> "archive", names |-> q] : q \in NameLists }

----------------------------------------------------------------------------
\* download (reach.py 483-539)

url == "https://zenodo.org/record/6423507/files/"

\* zname.format(year=..., month=...)
zname(year, month) == "reach." \o PadLeft(StrOfNat(year), 4, " ")
                               \o PadLeft(StrOfNat(month), 2, "0") \o ".v3.zip"

\* search_str, as pysat's construct_searchstring_from_format splits it: the
\* literal blocks, and the keys and widths of the fields between them.
SearchBlocks == << "reach.", ".vid-", ".l1b.v", ".csv" >>
SearchKeys   == << "datestr", "inst_id", "version" >>
SearchWidths == << 8, 3, 1 >>

\* dt.datetime(date.year, date.month, 1)
MonthOf(date) == << date.year, date.month >>

MonthLess(a, b) == a[1] < b[1] \/ (a[1] = b[1] /\ a[2] < b[2])

\* np.unique: the distinct values, in ascending order.
RECURSIVE SortedSeq(_)
SortedSeq(S) == IF S = {} THEN <<>>
                ELSE LET m == CHOOSE x \in S : \A y \in S \ {x} : MonthLess(x, y)
                     IN  <<m>> \o SortedSeq(S \ {m})

DlArrayPerDate(dates) == [i \in 1..Len(dates) |-> MonthOf(dates[i])]

DlArray(dates) == SortedSeq({ MonthOf(dates[i]) : i \in 1..Len(dates) })

ZipFname(dl_date) == zname(dl_date[1], dl_date[2])

\* furl, for each month of Dates (evaluated once).
FurlTable == [m \in { MonthOf(d) : d \in Dates } |-> url \o ZipFname(m)]

Furl(dl_date) == FurlTable[dl_date]

\* data_path[:-4]
ExtractBase(path) == SubSeq(path, 1, Max0(Len(path) - 4))

\* pysat.utils.files.parse_fixed_width_filenames(file_list, search_str), the
\* library routine download calls. It filters nothing: it cuts each field
\* out of every name at the field's fixed distance from the END of the name,
\* and returns the input list as 'files'.
RECURSIVE BlockLenUpTo(_)
BlockLenUpTo(j) == IF j = 0 THEN 0
                   ELSE BlockLenUpTo(j - 1) + Len(SearchBlocks[j])

RECURSIVE WidthUpTo(_)
WidthUpTo(j) == IF j = 0 THEN 0 ELSE WidthUpTo(j - 1) + SearchWidths[j]

MaxLen == BlockLenUpTo(Len(SearchBlocks)) + WidthUpTo(Len(SearchWidths))

BeginKey(j) == BlockLenUpTo(j) + WidthUpTo(j - 1)

EndKey(j) == BeginKey(j) + SearchWidths[j]

KeyIndex(key) == CHOOSE j \in 1..Len(SearchKeys) : SearchKeys[j] = key

\* temp[key_str_idx[0][j]:key_str_idx[1][j]]
FieldOf(name, key) == LET j == KeyIndex(key)
                      IN  NegSlice(name, BeginKey(j) - MaxLen, EndKey(j) - MaxLen)

\* The library then tries np.array(values).astype(np.int64) on each key's
\* values: when every value is a number the key holds integers, otherwise it
\* keeps the strings.
ParseFixedWidth(file_list) ==
    LET raw     == [ii \in 1..Len(file_list) |-> FieldOf(file_list[ii], "inst_id")]
        numeric == \A ii \in 1..Len(file_list) : IsDigits(raw[ii])
    IN  [files   |-> file_list,
         numeric |-> numeric,
         inst_id |-> IF numeric
                     THEN [ii \in 1..Len(file_list) |-> IntOfDigits(raw[ii])]
                     ELSE raw]

\* str(stored['inst_id'][ii])
StrOfInstId(stored, ii) == IF stored.numeric THEN StrOfNat(stored.inst_id[ii])
                           ELSE stored.inst_id[ii]

\* The directory open_zip.extract is given for member ii (534-535).
ExtractDir(stored, ii, path) == PathJoin(ExtractBase(path), StrOfInstId(stored, ii))

\* The extract loop over one archive (531-535): what it puts on disk.
ExtractAll(stored, path) ==
    { [dir |-> ExtractDir(stored, ii, path), file |-> stored.files[ii]] :
        ii \in 1..Len(stored.files) }

\* The answer to a fetch of furl: the one already seen for this URL, or any.
Answers(furl) == IF furl \in DOMAIN remote THEN { remote[furl] } ELSE Responses

Seen(furl, resp) == [u \in DOMAIN remote \cup {furl} |->
                       IF u = furl THEN resp ELSE remote[u]]

\* requests.get(furl) raises instead of returning a response.
GetRaises(resp) == resp.kind = "connerr"

\* req.status_code
StatusCode(resp) == IF resp.kind = "notfound" THEN 404
                    ELSE IF resp.kind = "notzip" THEN 500
                    ELSE 200

\* Line 525, negated: the response is skipped.
SkippedAll(resp) == StatusCode(resp) >= 400

SkippedNone(resp) == FALSE

Skipped(resp) == StatusCode(resp) = 404

\* zipfile.ZipFile(local_zip_path, 'r') opens the body written at 526-527.
IsZip(resp) == resp.kind = "archive"

InitDownload ==
    /\ dateArray \in DateArrays
    /\ instId \in InstIds
    /\ dataPath \in DataPaths
    /\ remote = << >>
    /\ dlArray = << >>
    /\ idx = 1
    /\ fetched = << >>
    /\ extracted = {}
    /\ disk = {}
    /\ tempDir = "none"
    /\ pc = "call"
    /\ prev = NoCall
    /\ LoadIdle
    /\ FnIdle

\* Lines 515-519: the temporary directory, and the months to iterate over.
Begin ==
    /\ pc = "call"
    /\ tempDir' = "exists"
    /\ dlArray' = DlArray(dateArray)
    /\ idx' = 1
    /\ pc' = "loop"
    /\ UNCHANGED <<dateArray, instId, dataPath, remote, fetched, extracted,
                   disk, prev>>
    /\ UNCHANGED <<ldVars, fnVars>>

InLoop == pc = "loop" /\ idx <= Len(dlArray)

\* One iteration whose fetch answers 404 (525 is false): nothing is done.
IterNotFound ==
    /\ InLoop
    /\ \E resp \in Answers(Furl(dlArray[idx])) :
        /\ ~GetRaises(resp)
        /\ Skipped(resp)
        /\ remote' = Seen(Furl(dlArray[idx]), resp)
    /\ fetched' = Append(fetched, Furl(dlArray[idx]))
    /\ idx' = idx + 1
    /\ UNCHANGED <<dateArray, instId, dataPath, dlArray, extracted, disk,
                   tempDir, pc, prev>>
    /\ UNCHANGED <<ldVars, fnVars>>

ExtractionOfInstId(resp, path) ==
    { e \in ExtractAll(ParseFixedWidth(resp.names), path) :
        FieldOf(e.file, "inst_id") = instId }

\* The extract loop's result for each name list and path (evaluated once).
ExtractionTable ==
    [q \in NameLists, p \in DataPaths |-> ExtractAll(ParseFixedWidth(q), p)]

\* The members one iteration extracts from the archive it fetched.
Extraction(resp, path) == ExtractionTable[resp.names, path]

\* One iteration whose fetch answers an archive (526-535).
IterArchive ==
    /\ InLoop
    /\ \E resp \in Answers(Furl(dlArray[idx])) :
        /\ ~GetRaises(resp)
        /\ ~Skipped(resp)
        /\ IsZip(resp)
        /\ remote' = Seen(Furl(dlArray[idx]), resp)
        /\ extracted' = extracted \cup
              { [zip |-> ZipFname(dlArray[idx]), dir |-> e.dir, file |-> e.file] :
                  e \in Extraction(resp, dataPath) }
        /\ disk' = disk \cup Extraction(resp, dataPath)
    /\ fetched' = Append(fetched, Furl(dlArray[idx]))
    /\ idx' = idx + 1
    /\ UNCHANGED <<dateArray, instId, dataPath, dlArray, tempDir, pc, prev>>
    /\ UNCHANGED <<ldVars, fnVars>>

DiskRolledBack(d, ex) == d \ { [dir |-> e.dir, file |-> e.file] : e \in ex }

\* What an error leaves on disk: download catches nothing and undoes nothing.
DiskAfterError(d, ex) == d

\* One iteration whose fetch or archive handling raises: requests.get
\* itself (524), or zipfile.ZipFile on a body that is no archive (528). The
\* error leaves download at once; line 537 is not reached.
IterError ==
    /\ InLoop
    /\ \E resp \in Answers(Furl(dlArray[idx])) :
        /\ GetRaises(resp) \/ (~GetRaises(resp) /\ ~Skipped(resp) /\ ~IsZip(resp))
        /\ remote' = Seen(Furl(dlArray[idx]), resp)
    /\ fetched' = Append(fetched, Furl(dlArray[idx]))
    /\ disk' = DiskAfterError(disk, extracted)
    /\ pc' = "raised"
    /\ UNCHANGED <<dateArray, instId, dataPath, dlArray, idx, extracted,
                   tempDir, prev>>
    /\ UNCHANGED <<ldVars, fnVars>>

\* Lines 537-539: the loop is over.
Finish ==
    /\ pc = "loop"
    /\ idx > Len(dlArray)
    /\ tempDir' = "removed"
    /\ pc' = "done"
    /\ UNCHANGED <<dateArray, instId, dataPath, remote, dlArray, idx, fetched,
                   extracted, disk, prev>>
    /\ UNCHANGED <<ldVars, fnVars>>

\* After an error has left download, temp_dir is no longer reachable once
\* the traceback is dropped; the finalizer of tempfile.TemporaryDirectory
\* then removes the directory, at a time the interpreter chooses.
Finalize ==
    /\ pc = "raised"
    /\ tempDir = "exists"
    /\ tempDir' = "removed"
    /\ UNCHANGED <<dateArray, instId, dataPath, remote, dlArray, idx, fetched,
                   extracted, disk, pc, prev>>
    /\ UNCHANGED <<ldVars, fnVars>>

\* The framework calls download once more with the same dates and path
\* against the same host, for another inst_id.
Recall ==
    /\ pc \in {"done", "raised"}
    /\ prev = NoCall
    /\ \E other \in InstIds \ {instId} : instId' = other
    /\ prev' = [pc |-> pc, fetched |-> fetched, extracted |-> extracted]
    /\ dlArray' = << >>
    /\ idx' = 1
    /\ fetched' = << >>
    /\ extracted' = {}
    /\ tempDir' = "none"
    /\ pc' = "call"
    /\ UNCHANGED <<dateArray, dataPath, remote, disk>>
    /\ UNCHANGED <<ldVars, fnVars>>

NextDownload == Begin \/ IterNotFound \/ IterArchive \/ IterError \/ Finish
                \/ Finalize \/ Recall

SpecDownload == InitDownload /\ [][NextDownload]_vars

----------------------------------------------------------------------------
\* Values of the header and of the reference table: strings, integers, and
\* the NaN of an empty cell.

StrVal(x) == [t |-> "str", s |-> x, n |-> 0]

IntVal(i) == [t |-> "int", s |-> "", n |-> i]

Nan == [t |-> "nan", s |-> "", n |-> 0]

\* A datetime.
Datetime(y, mo, d, h, mi, sec) ==
    [year |-> y, month |-> mo, day |-> d, hour |-> h, minute |-> mi, second |-> sec]

Pad2(i) == PadLeft(StrOfNat(i), 2, "0")

\* epoch.strftime('%Y%m%d')
Strftime(epoch) == PadLeft(StrOfNat(epoch.year), 4, "0") \o Pad2(epoch.month)
                   \o Pad2(epoch.day)

\* dt.datetime.today().isoformat(): the clock has no microseconds here.
IsoFormat(today) ==
    PadLeft(StrOfNat(today.year), 4, "0") \o "-" \o Pad2(today.month) \o "-"
    \o Pad2(today.day) \o "T" \o Pad2(today.hour) \o ":" \o Pad2(today.minute)
    \o ":" \o Pad2(today.second)

\* 'sub' in s
Occurrences(s, sub) ==
    { i \in 1..(Len(s) - Len(sub) + 1) : SubSeq(s, i, i + Len(sub) - 1) = sub }

Contains(s, sub) == Occurrences(s, sub) # {}

\* s.replace(old, new), old not empty
RECURSIVE Replace(_, _, _)
Replace(s, old, new) ==
    IF ~Contains(s, old) THEN s
    ELSE LET i == CHOOSE j \in Occurrences(s, old) :
                      \A k \in Occurrences(s, old) : j <= k
         IN  SubSeq(s, 1, i - 1) \o new
             \o Replace(SubSeq(s, i + Len(old), Len(s)), old, new)

----------------------------------------------------------------------------
\* Python dictionaries, as the sequence of their items in insertion order.

Keys(h) == { h[i].k : i \in 1..Len(h) }

HasKey(h, key) == \E i \in 1..Len(h) : h[i].k = key

\* h[key], key a key of h
Get(h, key) == h[CHOOSE i \in 1..Len(h) : h[i].k = key].v

\* h[key] = val
Set(h, key, val) ==
    IF HasKey(h, key)
    THEN [i \in 1..Len(h) |-> IF h[i].k = key THEN [k |-> key, v |-> val] ELSE h[i]]
    ELSE Append(h, [k |-> key, v |-> val])

\* _rename_key (119-122)
RECURSIVE RenameKey(_, _, _)
RenameKey(h, old_key, new_key) ==
    IF h = << >> THEN << >>
    ELSE LET last == h[Len(h)]
         IN  Set(RenameKey(SubSeq(h, 1, Len(h) - 1), old_key, new_key),
                 IF last.k = old_key THEN new_key ELSE last.k, last.v)

\* list[i] of Python is defined for -len <= i < len.
InListRange(list, i) == -Len(list) <= i /\ i < Len(list)

ListIndex(list, i) == IF i >= 0 THEN list[i + 1] ELSE list[Len(list) + i + 1]

----------------------------------------------------------------------------
\* generate_header (reach.py 101-239)

ackn_str ==
    "The development of the netCDF files was supported by the SPI"
    \o " Goddard HISFM 2022. The success of the REACH project is owe"
    \o "d to a long line of people who have contributed to it over t"
    \o "he many years of development. The REACH hardware team in The"
    \o " Aerospace Corporation's xLab organization included Paul Car"
    \o "ranza, Sue Crain, Bill Crain, Andrew Hsu, Brian McCarthy, Jo"
    \o "hn McHale, Can Nguyen, Mario Perez, Deb Salvaggio, and Gerri"
    \o "t Sorensen, all critical to designing and fabricating the fi"
    \o "rst 18 of the 32 REACH pods. Millennium Engineering and Inte"
    \o "gration (MEI) manufactured the remaining 14 pods. Doug Holke"
    \o "r was instrumental in nearly all facets of REACH development"
    \o ", outreach, support, endorsement and project management for "
    \o "the entirety of the project lifetime. The REACH project was "
    \o "led in chronological order by the following USAF Program Man"
    \o "agers: Capt Dan Kimmich, Lt Garrett Ellis, Lt Justin Shimasa"
    \o "ki, Capt Sean Quintana, Capt Felix Abeyta, Lt Kurt Mann, Maj"
    \o " James Crane, Capt Omar Manning, Lt Zach Morley, Capt Scott "
    \o "Day, Lt Zeesha Braslawsce, and Lt Ryan Francies. This list r"
    \o "eflects their ranks at the time of involvement. Recent manag"
    \o "ement is possible through the SMC/Development Corp program o"
    \o "ffice support Pete Cunningham. Data transport is provided by"
    \o " Iridium, L3Harris, and data processing of the Level 0 files"
    \o " is performed by Robin Barnes and supported by Tom Sotirelis"
    \o " and Mike Kelly at the Johns Hopkins Applied Physics Laborat"
    \o "ory. Alexa Halford, now of NASA Goddard Space Flight Center,"
    \o " prototyped many higher-level REACH data products and perfor"
    \o "med intra-calibration of the dosimeters."

HeaderTemplate(inst_id, epoch, today) ==
    << [k |-> "Project",
        v |-> StrVal("The Aerospace Corporation")],
       [k |-> "Discipline",
        v |-> StrVal("Space Physics>Magnetospheric Science, Space Weather")],
       [k |-> "Data_type",
        v |-> StrVal("pre>Preliminary")],
       [k |-> "Descriptor",
        v |-> StrVal("reach-v3 "
                  \o inst_id
                  \o " >, The Responsive Environmental Assessment Commercially Hos"
                     \o "ted (REACH)  version-3 Data for,vehical ID  "
                  \o inst_id)],
       [k |-> "TITLE",
        v |-> StrVal("Responsive Environmental Assessment Commercially Hosted")],
       [k |-> "TEXT",
        v |-> StrVal("The Responsive Environmental Assessment Commercially Hosted "
                     \o "(REACH) constellation is collection of 32 small sensors host"
                     \o "ed on six orbital planes of the Iridium-Next space vehicles "
                     \o "in low earth orbit. Each sensor contains two micro-dosimeter"
                     \o "s sensitive to the passage of charged particles from the Ear"
                     \o "th's radiation belts. There are six distinct dosimeter types"
                     \o " spread among the 64 individual sensors, which are unique in"
                     \o " shielding and electronic threshold. When taken together, th"
                     \o "is effectively enables a high time-cadence measurement of pr"
                     \o "otons and electrons in six integral energy channels over the"
                     \o " entire globe.")],
       [k |-> "Source_name",
        v |-> StrVal("reach>The Responsive Environmental Assessment Commercially H"
                     \o "osted, satellite id  "
                  \o inst_id)],
       [k |-> "Logical_source",
        v |-> StrVal("reach."
                  \o Strftime(epoch)
                  \o ".vid-"
                  \o inst_id
                  \o ".l1b.v3")],
       [k |-> "Logical_source_description",
        v |-> StrVal("Dosimeter measurements from the Responsive Environmental Ass"
                     \o "essment Commerically Hosted satellite "
                  \o inst_id)],
       [k |-> "File_naming_convention",
        v |-> StrVal("source_date_vehicalID_descriptor")],
       [k |-> "Data_product",
        v |-> StrVal("l1b")],
       [k |-> "Data_version",
        v |-> StrVal("03")],
       [k |-> "PI_name",
        v |-> StrVal("Joe Mazur (joseph.e.mazur@aero.org)")],
       [k |-> "PI_affiliation",
        v |-> StrVal("The Aerospace Corporation")],
       [k |-> "Data_Curator",
        v |-> StrVal("Timothy B. Guild (Timothy.B.Guild@aero.org)")],
       [k |-> "DC_affiliation",
        v |-> StrVal("The Aerospace Corporation")],
       [k |-> "Instrument_type",
        v |-> StrVal("Particles (space)")],
       [k |-> "Mission_group",
        v |-> StrVal("The Responsive Environmental Assessment Commercially Hosted "
                     \o "(REACH)")],
       [k |-> "Time_resolution",
        v |-> StrVal("5 seconds")],
       [k |-> "Rules_of_use",
        v |-> StrVal("See Usage Guidelines at: https://zenodo.org/record/6423507#."
                     \o "YmMqcfPMLCU")],
       [k |-> "Generated_by",
        v |-> StrVal("csv files generated at The Aerosapce Corporation, netCDF fil"
                     \o "es generated by Jeff Klenzing and Alexa Halford at NASA Godd"
                     \o "ard Space Flight Center")],
       [k |-> "Generation_datetime",
        v |-> StrVal(IsoFormat(today))],
       [k |-> "Acknowledgement",
        v |-> StrVal(ackn_str)],
       [k |-> "LINK_TEXT",
        v |-> StrVal("REACH csv files are avalible at ")],
       [k |-> "LINK_TITLE",
        v |-> StrVal("REACH data ")],
       [k |-> "HTTP_LINK",
        v |-> StrVal("https://zenodo.org/record/6423507#.YmMwUfPMLCV")] >>

hpl_key == "Hosted payload number (HPL)"

a_key == "A dosimeter type (0=NuDOS, 1 = uDOS with standard 100 keV th"
         \o "reshold, 2 = uDOS hi-LET 1 MeV threshold"

a_key_new == "A Dosimeter Type"

b_key == "B dosimeter type (0=NuDOS, 1 = uDOS with standard 100 keV th"
         \o "reshold, 2 = uDOS hi-LET 1 MeV threshold"

b_key_new == "B Dosimeter Type"

dosimeter_type == << "NuDOS", "uDOS with standard 100 keV threshold",
                     "uDOS hi-LET 1 MeV threshold" >>

m_key == "Manufacturer (A=Aerospace, M=MEI)"

m_key_new == "Manufacturer"

manufacturer_type == << [k |-> "A", v |-> StrVal("Aerospace")], [k |-> "M", v |-> StrVal("MEI")] >>

t_key == "Temperature sensitivity (43-65 deg C; 0=no, 1=yes)"

t_key_new == "Temperature Sensitivity 43-65 deg"

temp_type == << "no", "yes" >>

\* The replacements of lines 223-236, in order.
NormalizeSteps ==
    << <<" (HPL)", "">>,
       <<" ", "_">>,
       <<"(", "">>,
       <<")", "">>,
       <<"payload", "Payload">>,
       <<"number", "Number">>,
       <<"batch", "Batch">>,
       <<"#", "Number">>,
       <<"dosim", "Dosim">>,
       <<"mallory", "Mallory">>,
       <<"electron", "Electron">>,
       <<"proton", "Proton">>,
       <<"nominal", "Nominal">>,
       <<"threshold", "Threshold">> >>

RECURSIVE ApplySteps(_, _, _)
ApplySteps(key, steps, n) ==
    IF n = 0 THEN key
    ELSE Replace(ApplySteps(key, steps, n - 1), steps[n][1], steps[n][2])

NormalizeKeyName(key) ==
    Replace(ApplySteps(key, NormalizeSteps, Len(NormalizeSteps)), "name", "Name")

\* new_key of lines 223-236
NormalizeKey(key) == ApplySteps(key, NormalizeSteps, Len(NormalizeSteps))

\* The outcome of a function that may raise.
Ok(x) == [ok |-> TRUE, err |-> "", val |-> x]

Err(e) == [ok |-> FALSE, err |-> e, val |-> << >>]

\* The columns of pod_serial_numbers.csv: those generate_header names, and a
\* placeholder column.
PodColumns == << hpl_key, a_key, b_key, m_key, t_key, "Placeholder" >>

\* The cell of a row of the reference table in a column, as pandas reads it.
PodCell(row, col) ==
    CASE col = hpl_key -> IntVal(row.hpl)
      [] col = a_key   -> IntVal(row.a)
      [] col = b_key   -> IntVal(row.b)
      [] col = m_key   -> StrVal(row.m)
      [] col = t_key   -> IntVal(row.t)
      [] OTHER         -> Nan

RECURSIVE Filter(_, _)
Filter(rows, hpl) ==
    IF rows = << >> THEN << >>
    ELSE LET rest == Filter(SubSeq(rows, 1, Len(rows) - 1), hpl)
         IN  IF rows[Len(rows)].hpl = hpl THEN Append(rest, rows[Len(rows)]) ELSE rest

InfoRowsAll(table, hpl) == table

\* pods[pods['Hosted payload number (HPL)'] == int(inst_id)] (178)
InfoRows(table, hpl) == Filter(table, hpl)

\* for key in info.keys(): header[key] = info[key].values[0] (179-180)
RECURSIVE MergeColumns(_, _, _)
MergeColumns(h, row, n) ==
    IF n = 0 THEN h
    ELSE Set(MergeColumns(h, row, n - 1), PodColumns[n], PodCell(row, PodColumns[n]))

\* values[0] of a column without rows raises IndexError.
MergeInfo(h, info) == IF info = << >> THEN Err("IndexError")
                      ELSE Ok(MergeColumns(h, info[1], Len(PodColumns)))

\* Lines 183-186.
RECURSIVE DropPlaceholders(_)
DropPlaceholders(h) ==
    IF h = << >> THEN << >>
    ELSE LET rest == DropPlaceholders(SubSeq(h, 1, Len(h) - 1))
         IN  IF Contains(h[Len(h)].k, "Placeholder") THEN rest
             ELSE Append(rest, h[Len(h)])

\* header[key] = list[header[key]] (201, 202, 218)
DecodeList(h, key, list) ==
    IF ~HasKey(h, key) THEN Err("KeyError")
    ELSE IF Get(h, key).t # "int" THEN Err("TypeError")
    ELSE IF ~InListRange(list, Get(h, key).n) THEN Err("IndexError")
    ELSE Ok(Set(h, key, StrVal(ListIndex(list, Get(h, key).n))))

\* header[key] = dict[header[key]] (210)
DecodeDict(h, key, dict) ==
    IF ~HasKey(h, key) THEN Err("KeyError")
    ELSE IF Get(h, key).t # "str" \/ ~HasKey(dict, Get(h, key).s) THEN Err("KeyError")
    ELSE Ok(Set(h, key, Get(dict, Get(h, key).s)))

\* The keys the header can hold when line 221 is reached.
HeaderKeys ==
    Keys(HeaderTemplate("", NoTime, NoTime))
    \cup {hpl_key, a_key_new, b_key_new, m_key_new, t_key_new}

\* new_key for each of them (evaluated once).
NewKeyTable == [key \in HeaderKeys |-> NormalizeKey(key)]

\* Lines 221-237.
RECURSIVE MakeCompliant(_)
MakeCompliant(h) ==
    IF h = << >> THEN << >>
    ELSE Set(MakeCompliant(SubSeq(h, 1, Len(h) - 1)),
             NewKeyTable[h[Len(h)].k], h[Len(h)].v)

\* Lines 174-239 of generate_header, on the header of lines 124-172: the
\* header returned, or the error raised.
HeaderFrom(h, inst_id, table) ==
    IF ~IsDigits(inst_id) THEN Err("ValueError")
    ELSE
    LET merged == MergeInfo(h, InfoRows(table, IntOfDigits(inst_id)))
    IN  IF ~merged.ok THEN merged
        ELSE
        LET dropped == DropPlaceholders(merged.val)
            renamed == RenameKey(RenameKey(dropped, a_key, a_key_new), b_key, b_key_new)
            a_done  == DecodeList(renamed, a_key_new, dosimeter_type)
        IN  IF ~a_done.ok THEN a_done
            ELSE
            LET b_done == DecodeList(a_done.val, b_key_new, dosimeter_type)
            IN  IF ~b_done.ok THEN b_done
                ELSE
                LET m_done == DecodeDict(RenameKey(b_done.val, m_key, m_key_new),
                                         m_key_new, manufacturer_type)
                IN  IF ~m_done.ok THEN m_done
                    ELSE
                    LET t_done == DecodeList(RenameKey(m_done.val, t_key, t_key_new),
                                             t_key_new, temp_type)
                    IN  IF ~t_done.ok THEN t_done
                        ELSE Ok(MakeCompliant(t_done.val))

GenerateHeaderDatedText(inst_id, epoch, today, table) ==
    HeaderFrom(Set(HeaderTemplate(inst_id, epoch, today), "Time_resolution",
                   StrVal("5 seconds from " \o Strftime(epoch))),
               inst_id, table)

\* generate_header(inst_id, epoch), with the clock and the reference table it
\* reads: the header, or the error it raises.
GenerateHeader(inst_id, epoch, today, table) ==
    HeaderFrom(HeaderTemplate(inst_id, epoch, today), inst_id, table)

----------------------------------------------------------------------------
\* scrub_l1b (reach.py 47-98)

RenameColumns ==
    << <<"YYYY", "year">>,
       <<"mm", "month">>,
       <<"DD", "day">>,
       <<"HH", "hour">>,
       <<"MM", "minute">>,
       <<"SEC", "seconds">>,
       <<"MJD", "mjd">>,
       <<"DoY", "doy">>,
       <<"VID", "vid">>,
       <<"ALT km", "altitude">>,
       <<"LAT deg", "latitude">>,
       <<"LON deg", "longitude">>,
       <<"GEO_X RE", "geo_x">>,
       <<"GEO_Y RE", "geo_y">>,
       <<"GEO_Z RE", "geo_z">>,
       <<"GEI_X RE", "gei_x">>,
       <<"GEI_Y RE", "gei_y">>,
       <<"GEI_Z RE", "gei_z">>,
       <<"DOSE1 rad/s", "dose1">>,
       <<"PROT FLUX1 #/cm^2/sr/s", "proton_flux1">>,
       <<"ELEC FLUX1 #/cm^2/sr/s", "electron_flux1">>,
       <<"SPECIES1", "species1">>,
       <<"DOSE2 rad/s", "dose2">>,
       <<"PROT FLUX2 #/cm^2/sr/s", "proton_flux2">>,
       <<"ELEC FLUX2 #/cm^2/sr/s", "electron_flux2">>,
       <<"SPECIES2", "species2">>,
       <<"HK Temperature deg C", "hk_temperature">>,
       <<"HK 15V Monitor", "hk_15v_monitor">>,
       <<"HK 5V Monitor", "hk_5v_monitor">>,
       <<"HK 3.3V Monitor", "hk_3_3v_monitor">>,
       <<"Lm RE", "lm">>,
       <<"Inv_Lat deg", "inv_lat">>,
       <<"Blocal nT", "blocal">>,
       <<"Bmin nT", "bmin">>,
       <<"MLT hr", "mlt">>,
       <<"K sqrt(G)RE", "k_sqrt">>,
       <<"hmin km", "hmin">>,
       <<"Alpha deg", "alpha">>,
       <<"Alpha Eq deg", "alpha_eq">>,
       <<"Region Code", "region_code">>,
       <<"Orbit Status", "orbit_status">>,
       <<"Flag", "flag">> >>

RenameColumnBoth(c) ==
    IF \E i \in 1..Len(RenameColumns) : RenameColumns[i][1] = c
    THEN RenameColumns[CHOOSE i \in 1..Len(RenameColumns) : RenameColumns[i][1] = c][2]
    ELSE IF \E i \in 1..Len(RenameColumns) : RenameColumns[i][2] = c
    THEN RenameColumns[CHOOSE i \in 1..Len(RenameColumns) : RenameColumns[i][2] = c][1]
    ELSE c

\* data.rename(columns=...): a column that is no key keeps its name.
RenameColumn(c) ==
    IF \E i \in 1..Len(RenameColumns) : RenameColumns[i][1] = c
    THEN RenameColumns[CHOOSE i \in 1..Len(RenameColumns) : RenameColumns[i][1] = c][2]
    ELSE c

HasColumn(cols, c) == \E i \in 1..Len(cols) : cols[i] = c

\* data[c][i]
Cell(df, c, i) == df.rows[i][CHOOSE j \in 1..Len(df.cols) : df.cols[j] = c]

IsLeap(y) == (y % 4 = 0 /\ y % 100 # 0) \/ y % 400 = 0

DaysInMonth(y, mo) == IF mo = 2 THEN (IF IsLeap(y) THEN 29 ELSE 28)
                      ELSE IF mo \in {4, 6, 9, 11} THEN 30 ELSE 31

ValidDatetimeAnyDay(y, mo, d, h, mi, sec) ==
    /\ y \in 1..9999
    /\ mo \in 1..12
    /\ h \in 0..23
    /\ mi \in 0..59
    /\ sec \in 0..59

\* dt.datetime(y, mo, d, h, mi, sec) raises ValueError outside these ranges.
ValidDatetime(y, mo, d, h, mi, sec) ==
    /\ y \in 1..9999
    /\ mo \in 1..12
    /\ d \in 1..DaysInMonth(y, mo)
    /\ h \in 0..23
    /\ mi \in 0..59
    /\ sec \in 0..59

DateColumns == << "year", "month", "day", "hour", "minute", "seconds" >>

EpochOfDayFirst(df, i) ==
    Datetime(Cell(df, "year", i), Cell(df, "day", i), Cell(df, "month", i),
             Cell(df, "hour", i), Cell(df, "minute", i), Cell(df, "seconds", i))

\* The datetime of row i (92-94).
EpochOf(df, i) ==
    Datetime(Cell(df, "year", i), Cell(df, "month", i), Cell(df, "day", i),
             Cell(df, "hour", i), Cell(df, "minute", i), Cell(df, "seconds", i))

ValidRow(df, i) ==
    ValidDatetime(Cell(df, "year", i), Cell(df, "month", i), Cell(df, "day", i),
                  Cell(df, "hour", i), Cell(df, "minute", i), Cell(df, "seconds", i))

\* scrub_l1b(data): the table with its columns renamed and its index set, or
\* the error raised.
ScrubL1b(df) ==
    LET renamed == [cols  |-> [j \in 1..Len(df.cols) |-> RenameColumn(df.cols[j])],
                    rows  |-> df.rows,
                    index |-> df.index]
    IN  IF Len(renamed.rows) > 0
           /\ \E j \in 1..Len(DateColumns) : ~HasColumn(renamed.cols, DateColumns[j])
        THEN Err("KeyError")
        ELSE IF \E i \in 1..Len(renamed.rows) : ~ValidRow(renamed, i)
        THEN Err("ValueError")
        ELSE Ok([renamed EXCEPT !.index =
                    [i \in 1..Len(renamed.rows) |-> EpochOf(renamed, i)]])

----------------------------------------------------------------------------
\* generate_metadata (reach.py 242-480)

MetaAssignments ==
    << [field |-> "mjd",
        attrs |-> << [label |-> "name", val |-> [t |-> "str", s |-> "Modified Julian Day"]],
                   [label |-> "units", val |-> [t |-> "str", s |-> "days"]],
                   [label |-> "min_val", val |-> [t |-> "float", s |-> "57754.0"]],
                   [label |-> "max_val", val |-> [t |-> "float", s |-> "80754.0"]] >>],
       [field |-> "year",
        attrs |-> << [label |-> "units", val |-> [t |-> "str", s |-> "years"]],
                   [label |-> "min_val", val |-> [t |-> "int", s |-> "2017"]],
                   [label |-> "max_val", val |-> [t |-> "int", s |-> "2079"]],
                   [label |-> "fill_val", val |-> [t |-> "int", s |-> "-999"]] >>],
       [field |-> "month",
        attrs |-> << [label |-> "units", val |-> [t |-> "str", s |-> "months"]],
                   [label |-> "min_val", val |-> [t |-> "int", s |-> "0"]],
                   [label |-> "max_val", val |-> [t |-> "int", s |-> "12"]],
                   [label |-> "fill_val", val |-> [t |-> "int", s |-> "-999"]] >>],
       [field |-> "day",
        attrs |-> << [label |-> "units", val |-> [t |-> "str", s |-> "days"]],
                   [label |-> "min_val", val |-> [t |-> "int", s |-> "0"]],
                   [label |-> "max_val", val |-> [t |-> "int", s |-> "31"]],
                   [label |-> "fill_val", val |-> [t |-> "int", s |-> "-999"]] >>],
       [field |-> "hour",
        attrs |-> << [label |-> "units", val |-> [t |-> "str", s |-> "hours"]],
                   [label |-> "min_val", val |-> [t |-> "int", s |-> "0"]],
                   [label |-> "max_val", val |-> [t |-> "int", s |-> "24"]],
                   [label |-> "fill_val", val |-> [t |-> "int", s |-> "-999"]] >>],
       [field |-> "minute",
        attrs |-> << [label |-> "units", val |-> [t |-> "str", s |-> "minutes"]],
                   [label |-> "min_val", val |-> [t |-> "int", s |-> "0"]],
                   [label |-> "max_val", val |-> [t |-> "int", s |-> "60"]],
                   [label |-> "fill_val", val |-> [t |-> "int", s |-> "-999"]] >>],
       [field |-> "seconds",
        attrs |-> << [label |-> "units", val |-> [t |-> "str", s |-> "seconds"]],
                   [label |-> "min_val", val |-> [t |-> "int", s |-> "0"]],
                   [label |-> "max_val", val |-> [t |-> "int", s |-> "60"]],
                   [label |-> "fill_val", val |-> [t |-> "int", s |-> "-999"]] >>],
       [field |-> "doy",
        attrs |-> << [label |-> "name", val |-> [t |-> "str", s |-> "Fractional Day of Year"]],
                   [label |-> "units", val |-> [t |-> "str", s |-> "days"]],
                   [label |-> "min_val", val |-> [t |-> "float", s |-> "0.0"]],
                   [label |-> "max_val", val |-> [t |-> "float", s |-> "367.0"]] >>],
       [field |-> "vid",
        attrs |-> << [label |-> "name", val |-> [t |-> "str", s |-> "REACH Vehicle Identifier"]],
                   [label |-> "units", val |-> [t |-> "str", s |-> "unitless"]],
                   [label |-> "min_val", val |-> [t |-> "int", s |-> "101"]],
                   [label |-> "max_val", val |-> [t |-> "int", s |-> "181"]],
                   [label |-> "fill_val", val |-> [t |-> "int", s |-> "-999"]] >>],
       [field |-> "altitude",
        attrs |-> << [label |-> "name", val |-> [t |-> "str", s |-> "Geodetic Altitude"]],
                   [label |-> "units", val |-> [t |-> "str", s |-> "km"]],
                   [label |-> "min_val", val |-> [t |-> "float", s |-> "750.0"]],
                   [label |-> "max_val", val |-> [t |-> "float", s |-> "850.0"]] >>],
       [field |-> "latitude",
        attrs |-> << [label |-> "name", val |-> [t |-> "str", s |-> "Geodetic Latitude"]],
                   [label |-> "units", val |-> [t |-> "str", s |-> "degrees"]],
                   [label |-> "min_val", val |-> [t |-> "float", s |-> "-90.0"]],
                   [label |-> "max_val", val |-> [t |-> "float", s |-> "90.0"]] >>],
       [field |-> "longitude",
        attrs |-> << [label |-> "name", val |-> [t |-> "str", s |-> "Geodetic Longitude"]],
                   [label |-> "units", val |-> [t |-> "str", s |-> "degrees"]],
                   [label |-> "min_val", val |-> [t |-> "float", s |-> "-180.0"]],
                   [label |-> "max_val", val |-> [t |-> "float", s |-> "180.0"]] >>],
       [field |-> "geo_x",
        attrs |-> << [label |-> "units", val |-> [t |-> "str", s |-> "RE"]],
                   [label |-> "min_val", val |-> [t |-> "float", s |-> "-2.0"]],
                   [label |-> "max_val", val |-> [t |-> "float", s |-> "2.0"]] >>],
       [field |-> "geo_y",
        attrs |-> << [label |-> "units", val |-> [t |-> "str", s |-> "RE"]],
                   [label |-> "min_val", val |-> [t |-> "float", s |-> "-2.0"]],
                   [label |-> "max_val", val |-> [t |-> "float", s |-> "2.0"]] >>],
       [field |-> "geo_z",
        attrs |-> << [label |-> "units", val |-> [t |-> "str", s |-> "RE"]],
                   [label |-> "min_val", val |-> [t |-> "float", s |-> "-2.0"]],
                   [label |-> "max_val", val |-> [t |-> "float", s |-> "2.0"]] >>],
       [field |-> "gei_x",
        attrs |-> << [label |-> "units", val |-> [t |-> "str", s |-> "RE"]],
                   [label |-> "min_val", val |-> [t |-> "float", s |-> "-2.0"]],
                   [label |-> "max_val", val |-> [t |-> "float", s |-> "2.0"]] >>],
       [field |-> "gei_y",
        attrs |-> << [label |-> "units", val |-> [t |-> "str", s |-> "RE"]],
                   [label |-> "min_val", val |-> [t |-> "float", s |-> "-2.0"]],
                   [label |-> "max_val", val |-> [t |-> "float", s |-> "2.0"]] >>],
       [field |-> "gei_z",
        attrs |-> << [label |-> "units", val |-> [t |-> "str", s |-> "RE"]],
                   [label |-> "min_val", val |-> [t |-> "float", s |-> "-2.0"]],
                   [label |-> "max_val", val |-> [t |-> "float", s |-> "2.0"]] >>],
       [field |-> "dose1",
        attrs |-> << [label |-> "name", val |-> [t |-> "str", s |-> "Dose rate from Dosimeter 1"]],
                   [label |-> "units", val |-> [t |-> "str", s |-> "rad/s"]],
                   [label |-> "min_val", val |-> [t |-> "float", s |-> "0.0"]],
                   [label |-> "max_val", val |-> [t |-> "float", s |-> "1.0"]],
                   [label |-> "SCALEMIN", val |-> [t |-> "float", s |-> "1.0e-5"]],
                   [label |-> "SCALEMAX", val |-> [t |-> "float", s |-> "1.0"]],
                   [label |-> "SCALETYP", val |-> [t |-> "str", s |-> "log"]] >>],
       [field |-> "proton_flux1",
        attrs |-> << [label |-> "name", val |-> [t |-> "str", s |-> "Proton flux from bowtie"]],
                   [label |-> "units", val |-> [t |-> "str", s |-> "#/cm^2/sr/s"]],
                   [label |-> "min_val", val |-> [t |-> "float", s |-> "0.0"]],
                   [label |-> "max_val", val |-> [t |-> "float", s |-> "1.0e7"]],
                   [label |-> "SCALEMIN", val |-> [t |-> "float", s |-> "1.0"]],
                   [label |-> "SCALEMAX", val |-> [t |-> "float", s |-> "1.0e7"]],
                   [label |-> "SCALETYP", val |-> [t |-> "str", s |-> "log"]] >>],
       [field |-> "electron_flux1",
        attrs |-> << [label |-> "name", val |-> [t |-> "str", s |-> "Electron flux from bowtie"]],
                   [label |-> "units", val |-> [t |-> "str", s |-> "#/cm^2/sr/s"]],
                   [label |-> "min_val", val |-> [t |-> "float", s |-> "0.0"]],
                   [label |-> "max_val", val |-> [t |-> "float", s |-> "1.0e9"]],
                   [label |-> "SCALEMIN", val |-> [t |-> "float", s |-> "1.0"]],
                   [label |-> "SCALEMAX", val |-> [t |-> "float", s |-> "1.0e9"]],
                   [label |-> "SCALETYP", val |-> [t |-> "str", s |-> "log"]] >>],
       [field |-> "species1",
        attrs |-> << [label |-> "name", val |-> [t |-> "str", s |-> "Most probable species"]],
                   [label |-> "notes", val |-> [t |-> "str", s |-> "0 (not currently used); 1-protons, 2-electrons; and 3-both /"
                              \o " ambiguous"]],
                   [label |-> "units", val |-> [t |-> "str", s |-> "unitless"]],
                   [label |-> "min_val", val |-> [t |-> "int", s |-> "0"]],
                   [label |-> "max_val", val |-> [t |-> "int", s |-> "3"]],
                   [label |-> "fill_val", val |-> [t |-> "int", s |-> "-999"]] >>],
       [field |-> "dose2",
        attrs |-> << [label |-> "name", val |-> [t |-> "str", s |-> "Dose rate from Dosimeter 2"]],
                   [label |-> "units", val |-> [t |-> "str", s |-> "rad/s"]],
                   [label |-> "min_val", val |-> [t |-> "float", s |-> "0.0"]],
                   [label |-> "max_val", val |-> [t |-> "float", s |-> "1.0e9"]],
                   [label |-> "SCALEMIN", val |-> [t |-> "float", s |-> "1.0"]],
                   [label |-> "SCALEMAX", val |-> [t |-> "float", s |-> "1.0e9"]],
                   [label |-> "SCALETYP", val |-> [t |-> "str", s |-> "log"]] >>],
       [field |-> "proton_flux2",
        attrs |-> << [label |-> "name", val |-> [t |-> "str", s |-> "Proton flux from bowtie"]],
                   [label |-> "units", val |-> [t |-> "str", s |-> "#/cm^2/sr/s"]],
                   [label |-> "min_val", val |-> [t |-> "float", s |-> "0.0"]],
                   [label |-> "max_val", val |-> [t |-> "float", s |-> "1.0e10"]],
                   [label |-> "SCALEMIN", val |-> [t |-> "float", s |-> "1.0"]],
                   [label |-> "SCALEMAX", val |-> [t |-> "float", s |-> "1.0e10"]],
                   [label |-> "SCALETYP", val |-> [t |-> "str", s |-> "log"]] >>],
       [field |-> "electron_flux2",
        attrs |-> << [label |-> "name", val |-> [t |-> "str", s |-> "Electron flux from bowtie"]],
                   [label |-> "units", val |-> [t |-> "str", s |-> "#/cm^2/sr/s"]],
                   [label |-> "min_val", val |-> [t |-> "float", s |-> "0.0"]],
                   [label |-> "max_val", val |-> [t |-> "float", s |-> "1.0e11"]],
                   [label |-> "SCALEMIN", val |-> [t |-> "float", s |-> "1.0"]],
                   [label |-> "SCALEMAX", val |-> [t |-> "float", s |-> "1.0e11"]],
                   [label |-> "SCALETYP", val |-> [t |-> "str", s |-> "log"]] >>],
       [field |-> "species2",
        attrs |-> << [label |-> "name", val |-> [t |-> "str", s |-> "Most probable species"]],
                   [label |-> "notes", val |-> [t |-> "str", s |-> "0 (not currently used); 1-protons, 2-electrons; and 3-both /"
                              \o " ambiguous"]],
                   [label |-> "units", val |-> [t |-> "str", s |-> "unitless"]],
                   [label |-> "min_val", val |-> [t |-> "int", s |-> "0"]],
                   [label |-> "max_val", val |-> [t |-> "int", s |-> "3"]],
                   [label |-> "fill_val", val |-> [t |-> "int", s |-> "-999"]] >>],
       [field |-> "hk_temperature",
        attrs |-> << [label |-> "name", val |-> [t |-> "str", s |-> "Housekeeping temperature"]],
                   [label |-> "units", val |-> [t |-> "str", s |-> "degrees C"]],
                   [label |-> "min_val", val |-> [t |-> "float", s |-> "0.0"]],
                   [label |-> "max_val", val |-> [t |-> "float", s |-> "20.0"]] >>],
       [field |-> "hk_15v_monitor",
        attrs |-> << [label |-> "name", val |-> [t |-> "str", s |-> "Housekeeping voltage 15V"]],
                   [label |-> "units", val |-> [t |-> "str", s |-> "volts"]],
                   [label |-> "min_val", val |-> [t |-> "float", s |-> "0.0"]],
                   [label |-> "max_val", val |-> [t |-> "float", s |-> "30.0"]] >>],
       [field |-> "hk_5v_monitor",
        attrs |-> << [label |-> "name", val |-> [t |-> "str", s |-> "Housekeeping voltage 5V"]],
                   [label |-> "units", val |-> [t |-> "str", s |-> "volts"]],
                   [label |-> "min_val", val |-> [t |-> "int", s |-> "0"]],
                   [label |-> "max_val", val |-> [t |-> "float", s |-> "15.0"]] >>],
       [field |-> "hk_3_3v_monitor",
        attrs |-> << [label |-> "name", val |-> [t |-> "str", s |-> "Housekeeping voltage 3.3V"]],
                   [label |-> "units", val |-> [t |-> "str", s |-> "volts"]],
                   [label |-> "min_val", val |-> [t |-> "float", s |-> "0.0"]],
                   [label |-> "max_val", val |-> [t |-> "float", s |-> "7.0"]] >>],
       [field |-> "lm",
        attrs |-> << [label |-> "name", val |-> [t |-> "str", s |-> "McIlwain L-shell for locally mirroring particle"]],
                   [label |-> "units", val |-> [t |-> "str", s |-> "RE"]],
                   [label |-> "min_val", val |-> [t |-> "float", s |-> "0.0"]],
                   [label |-> "max_val", val |-> [t |-> "float", s |-> "30.0"]] >>],
       [field |-> "inv_lat",
        attrs |-> << [label |-> "name", val |-> [t |-> "str", s |-> "Invariant Latitude for locally mirroring particle"]],
                   [label |-> "units", val |-> [t |-> "str", s |-> "deg"]],
                   [label |-> "min_val", val |-> [t |-> "float", s |-> "-90.0"]],
                   [label |-> "max_val", val |-> [t |-> "float", s |-> "90.0"]],
                   [label |-> "fill_val", val |-> [t |-> "float", s |-> "-1.0e31"]] >>],
       [field |-> "blocal",
        attrs |-> << [label |-> "name", val |-> [t |-> "str", s |-> "Local magnetic field at s/c"]],
                   [label |-> "units", val |-> [t |-> "str", s |-> "nT"]],
                   [label |-> "min_val", val |-> [t |-> "float", s |-> "0.0"]],
                   [label |-> "max_val", val |-> [t |-> "float", s |-> "50000.0"]] >>],
       [field |-> "bmin",
        attrs |-> << [label |-> "name", val |-> [t |-> "str", s |-> "Minimum magnetic field on field line intersecting spacecraft"]],
                   [label |-> "units", val |-> [t |-> "str", s |-> "nT"]],
                   [label |-> "min_val", val |-> [t |-> "float", s |-> "0.0"]],
                   [label |-> "max_val", val |-> [t |-> "float", s |-> "30000.0"]] >>],
       [field |-> "mlt",
        attrs |-> << [label |-> "name", val |-> [t |-> "str", s |-> "Magnetic local time"]],
                   [label |-> "units", val |-> [t |-> "str", s |-> "hours"]],
                   [label |-> "min_val", val |-> [t |-> "float", s |-> "0.0"]],
                   [label |-> "max_val", val |-> [t |-> "float", s |-> "24.0"]] >>],
       [field |-> "k_sqrt",
        attrs |-> << [label |-> "units", val |-> [t |-> "str", s |-> "RE"]],
                   [label |-> "min_val", val |-> [t |-> "float", s |-> "0.0"]],
                   [label |-> "max_val", val |-> [t |-> "float", s |-> "20000.0"]] >>],
       [field |-> "hmin",
        attrs |-> << [label |-> "units", val |-> [t |-> "str", s |-> "km"]],
                   [label |-> "min_val", val |-> [t |-> "float", s |-> "-3000.0"]],
                   [label |-> "max_val", val |-> [t |-> "float", s |-> "1000.0"]] >>],
       [field |-> "alpha",
        attrs |-> << [label |-> "name", val |-> [t |-> "str", s |-> "Local pitch angle"]],
                   [label |-> "units", val |-> [t |-> "str", s |-> "deg"]],
                   [label |-> "min_val", val |-> [t |-> "float", s |-> "0.0"]],
                   [label |-> "max_val", val |-> [t |-> "float", s |-> "180.0"]] >>],
       [field |-> "alpha_eq",
        attrs |-> << [label |-> "name", val |-> [t |-> "str", s |-> "Equatorial pitch angle"]],
                   [label |-> "units", val |-> [t |-> "str", s |-> "deg"]],
                   [label |-> "min_val", val |-> [t |-> "float", s |-> "0.0"]],
                   [label |-> "max_val", val |-> [t |-> "float", s |-> "90.0"]],
                   [label |-> "fill_val", val |-> [t |-> "float", s |-> "-1.0e31"]] >>],
       [field |-> "region_code",
        attrs |-> << [label |-> "notes", val |-> [t |-> "str", s |-> "-4: Southern Polar Cap; -3: Outer Zone Untrapped; -2: Slot U"
                              \o "ntrapped; -1: Inner Zone Untrapped; 0: Unknown; 1: Inner Zon"
                              \o "e Trapped; 2: Slot Trapped; 3: Outer Zone Trapped; 4: Northe"
                              \o "rn Polar Cap"]],
                   [label |-> "units", val |-> [t |-> "str", s |-> "unitless"]],
                   [label |-> "min_val", val |-> [t |-> "int", s |-> "-4"]],
                   [label |-> "max_val", val |-> [t |-> "int", s |-> "4"]],
                   [label |-> "fill_val", val |-> [t |-> "int", s |-> "-999"]] >>],
       [field |-> "orbit_status",
        attrs |-> << [label |-> "units", val |-> [t |-> "str", s |-> "unitless"]],
                   [label |-> "notes", val |-> [t |-> "str", s |-> "1=Northbound; 2=Southbound"]],
                   [label |-> "min_val", val |-> [t |-> "int", s |-> "1"]],
                   [label |-> "max_val", val |-> [t |-> "int", s |-> "2"]],
                   [label |-> "fill_val", val |-> [t |-> "int", s |-> "-999"]] >>],
       [field |-> "flag",
        attrs |-> << [label |-> "notes", val |-> [t |-> "str", s |-> "-1: no data; 0: No known problems; 1: Test Mode; 2: Possible"
                              \o " temperature-related self-counting in Dosimeter A.; 4: Possi"
                              \o "ble temperature-related self-counting in Dosimeter B.; 8: Du"
                              \o "plicate packets detected.; 16: Unknown issue with VID 163/Do"
                              \o "simeter B"]],
                   [label |-> "units", val |-> [t |-> "str", s |-> "unitless"]],
                   [label |-> "min_val", val |-> [t |-> "int", s |-> "-1"]],
                   [label |-> "max_val", val |-> [t |-> "int", s |-> "16"]],
                   [label |-> "fill_val", val |-> [t |-> "int", s |-> "-999"]] >>] >>

HasLabel(attrs, label) == \E i \in 1..Len(attrs) : attrs[i].label = label

LabelOf(attrs, label) == attrs[CHOOSE i \in 1..Len(attrs) : attrs[i].label = label].val

\* meta[field] = {...}, for the first n assignments of lines 261-474: one
\* row for each, as no field is assigned twice.
Assigned(n) ==
    [i \in 1..n |-> [k |-> MetaAssignments[i].field, v |-> MetaAssignments[i].attrs]]

SetLinearAll(m) ==
    LET linear == [label |-> "SCALETYP", val |-> [t |-> "str", s |-> "linear"]]
    IN  [i \in 1..Len(m) |->
            [k |-> m[i].k,
             v |-> IF HasLabel(m[i].v, "SCALETYP")
                   THEN [a \in 1..Len(m[i].v) |->
                            IF m[i].v[a].label = "SCALETYP" THEN linear ELSE m[i].v[a]]
                   ELSE Append(m[i].v, linear)]]

\* Lines 476-478: a field whose SCALETYP is not set is given 'linear'.
SetLinear(m) ==
    [i \in 1..Len(m) |->
        IF HasLabel(m[i].v, "SCALETYP") THEN m[i]
        ELSE [k |-> m[i].k,
              v |-> Append(m[i].v, [label |-> "SCALETYP",
                                    val |-> [t |-> "str", s |-> "linear"]])]]

\* The assignments and the SCALETYP pass of generate_metadata (evaluated
\* once).
MetaData == SetLinear(Assigned(Len(MetaAssignments)))

MetaDataButLast == SetLinear(Assigned(Len(MetaAssignments) - 1))

GenerateMetadataButLast(header_data) ==
    [header |-> header_data, data |-> MetaDataButLast]

\* generate_metadata(header_data)
GenerateMetadata(header_data) == [header |-> header_data, data |-> MetaData]

----------------------------------------------------------------------------
\* load (aero_reach.py 65-126) and its inputs

\* The supported tags: load takes the l1b branch for 'l1b' only.
Tags == {"l1b", "l1c"}

\* The columns of an l1b file, before scrub_l1b renames them.
CsvColumns == [j \in 1..Len(RenameColumns) |-> RenameColumns[j][1]]

\* A line of an l1b file with the given date and time; the other columns
\* hold 0.
CsvRow(y, mo, d, h, mi, sec) ==
    [j \in 1..Len(RenameColumns) |->
        CASE RenameColumns[j][2] = "year"    -> y
          [] RenameColumns[j][2] = "month"   -> mo
          [] RenameColumns[j][2] = "day"     -> d
          [] RenameColumns[j][2] = "hour"    -> h
          [] RenameColumns[j][2] = "minute"  -> mi
          [] RenameColumns[j][2] = "seconds" -> sec
          [] OTHER                           -> 0]

\* The files on disk: two days of data, a file whose second line holds no
\* valid date, and a file without lines.
CsvFiles ==
    << [path |-> "dl/l1b/105/reach.20170601.vid-105.l1b.v3.csv",
        rows |-> << CsvRow(2017, 6, 1, 0, 0, 0), CsvRow(2017, 6, 1, 0, 0, 5) >>],
       [path |-> "dl/l1b/105/reach.20170602.vid-105.l1b.v3.csv",
        rows |-> << CsvRow(2017, 6, 2, 23, 59, 55) >>],
       [path |-> "dl/l1b/105/reach.20170229.vid-105.l1b.v3.csv",
        rows |-> << CsvRow(2017, 2, 28, 0, 0, 0), CsvRow(2017, 2, 29, 0, 0, 0) >>],
       [path |-> "dl/l1b/105/reach.20170603.vid-105.l1b.v3.csv",
        rows |-> << >>] >>

Paths == { CsvFiles[i].path : i \in 1..Len(CsvFiles) }

\* The fnames arguments.
FileLists == SeqsUpTo(Paths, MaxFiles)

\* pds.read_csv(path): the table of the file, with the default index.
ReadCsv(path) ==
    LET file == CsvFiles[CHOOSE i \in 1..Len(CsvFiles) : CsvFiles[i].path = path]
    IN  [cols  |-> CsvColumns,
         rows  |-> file.rows,
         index |-> [i \in 1..Len(file.rows) |-> i - 1]]

\* The codes of a row of the reference table: two rows of documented codes,
\* and rows with one code outside the documented values.
PodCodes ==
    { [a |-> 0, b |-> 1, m |-> "A", t |-> 0],
      [a |-> 2, b |-> 0, m |-> "M", t |-> 1] }
    \cup { [a |-> x, b |-> 1, m |-> "A", t |-> 0] : x \in {-1, -4, 3} }
    \cup { [a |-> 0, b |-> x, m |-> "A", t |-> 0] : x \in {-3, 3} }
    \cup { [a |-> 0, b |-> 1, m |-> "X", t |-> 0] }
    \cup { [a |-> 0, b |-> 1, m |-> "M", t |-> x] : x \in {-1, -3, 2} }

DocumentedCodes == { c \in PodCodes : /\ c.a \in {0, 1, 2}
                                      /\ c.b \in {0, 1, 2}
                                      /\ c.m \in {"A", "M"}
                                      /\ c.t \in {0, 1} }

PodRow(hpl, c) == [hpl |-> hpl, a |-> c.a, b |-> c.b, m |-> c.m, t |-> c.t]

Hpls == { IntOfDigits(id) : id \in InstIds }

\* The reference tables: no row, one row, or two rows of distinct payloads.
PodTables ==
    { << >> }
    \cup { << PodRow(h, c) >> : h \in Hpls, c \in PodCodes }
    \cup { << PodRow(h1, c1), PodRow(h2, c2) >> :
              <<h1, h2, c1, c2>> \in
                  { q \in Hpls \X Hpls \X PodCodes \X DocumentedCodes : q[1] # q[2] } }

\* The instants dt.datetime.today() answers.
Clocks == { Datetime(2024, 2, 29, 8, 5, 9), Datetime(2026, 11, 1, 23, 59, 59) }

\* The first index values scrub_l1b gives the files.
FirstEpochs ==
    { ScrubL1b(ReadCsv(p)).val.index[1] :
        p \in { q \in Paths : /\ ScrubL1b(ReadCsv(q)).ok
                              /\ ScrubL1b(ReadCsv(q)).val.index # << >> } }

\* generate_header for every argument, clock and reference table
\* (evaluated once).
HeaderTable ==
    [id \in InstIds, e \in FirstEpochs, c \in Clocks, t \in PodTables |->
        GenerateHeader(id, e, c, t)]

\* scrub_l1b for every file (evaluated once).
ScrubTable == [df \in { ReadCsv(p) : p \in Paths } |-> ScrubL1b(df)]

InitLoad ==
    /\ fnames \in FileLists
    /\ tag \in Tags
    /\ loadInstId \in InstIds
    /\ pods \in PodTables
    /\ clock \in Clocks
    /\ readLog = << >>
    /\ data = NoData
    /\ header = << >>
    /\ meta = NoMeta
    /\ lpc = "call"
    /\ lerr = NoError
    /\ DownloadIdle
    /\ FnIdle

LoadInputs == <<fnames, tag, loadInstId, pods, clock>>

Raise(at, err) ==
    /\ lpc' = "raised"
    /\ lerr' = [at |-> at, err |-> err]

LastFile(files) == files[Len(files)]

\* fnames[0] (107)
FirstFile(files) == files[1]

\* Line 107, fnames empty: fnames[0] raises IndexError.
LoadReadNone ==
    /\ lpc = "call"
    /\ tag = "l1b"
    /\ fnames = << >>
    /\ Raise("read_csv", "IndexError")
    /\ UNCHANGED <<LoadInputs, readLog, data, header, meta>>
    /\ UNCHANGED <<dlVars, fnVars>>

\* Line 107: data = pds.read_csv(fnames[0])
LoadRead ==
    /\ lpc = "call"
    /\ tag = "l1b"
    /\ fnames # << >>
    /\ readLog' = Append(readLog, FirstFile(fnames))
    /\ data' = ReadCsv(FirstFile(fnames))
    /\ lpc' = "read"
    /\ UNCHANGED <<LoadInputs, header, meta, lerr>>
    /\ UNCHANGED <<dlVars, fnVars>>

\* Line 108: data = mm_reach.scrub_l1b(data)
LoadScrub ==
    /\ lpc = "read"
    /\ LET r == ScrubTable[data]
       IN  IF r.ok THEN /\ data' = r.val
                        /\ lpc' = "scrubbed"
                        /\ UNCHANGED lerr
           ELSE /\ Raise("scrub_l1b", r.err)
                /\ UNCHANGED data
    /\ UNCHANGED <<LoadInputs, readLog, header, meta>>
    /\ UNCHANGED <<dlVars, fnVars>>

\* Line 111: header_data = mm_reach.generate_header(inst_id, data.index[0]);
\* data.index[0] of a table without lines raises IndexError.
LoadHeader ==
    /\ lpc = "scrubbed"
    /\ IF data.index = << >>
       THEN /\ Raise("index", "IndexError")
            /\ UNCHANGED header
       ELSE LET r == HeaderTable[loadInstId, data.index[1], clock, pods]
            IN  IF r.ok THEN /\ header' = r.val
                             /\ lpc' = "header"
                             /\ UNCHANGED lerr
                ELSE /\ Raise("generate_header", r.err)
                     /\ UNCHANGED header
    /\ UNCHANGED <<LoadInputs, readLog, data, meta>>
    /\ UNCHANGED <<dlVars, fnVars>>

\* Lines 112 and 126: meta = mm_reach.generate_metadata(header_data), and
\* the return.
LoadMeta ==
    /\ lpc = "header"
    /\ meta' = GenerateMetadata(header)
    /\ lpc' = "done"
    /\ UNCHANGED <<LoadInputs, readLog, data, header, lerr>>
    /\ UNCHANGED <<dlVars, fnVars>>

\* Lines 114-126, any other tag: pysat.utils.io.load_netcdf is handed the
\* whole list. What it returns is not modelled.
LoadNetcdf ==
    /\ lpc = "call"
    /\ tag # "l1b"
    /\ readLog' = readLog \o fnames
    /\ lpc' = "done"
    /\ UNCHANGED <<LoadInputs, data, header, meta, lerr>>
    /\ UNCHANGED <<dlVars, fnVars>>

NextLoad == LoadReadNone \/ LoadRead \/ LoadScrub \/ LoadHeader \/ LoadMeta
            \/ LoadNetcdf

SpecLoad == InitLoad /\ [][NextLoad]_vars

----------------------------------------------------------------------------
\* scrub_l1b called on its own

\* The canonical names, in the order of the rename table.
CanonicalColumns == [j \in 1..Len(RenameColumns) |-> RenameColumns[j][2]]

\* The column layouts of the argument: an l1b file, a table that is already
\* canonical, and an l1b file with a column the rename table does not know.
ColumnLayouts == { CsvColumns, CanonicalColumns, Append(CsvColumns, "Comment") }

\* Dates and times of a line: valid ones, and ones dt.datetime refuses.
DateTuples ==
    { <<2017, 6, 1, 0, 0, 0>>, <<2016, 2, 29, 23, 59, 59>>, <<2017, 12, 31, 12, 30, 5>>,
      <<2017, 13, 1, 0, 0, 0>>, <<2017, 0, 1, 0, 0, 0>>, <<2017, 2, 29, 0, 0, 0>>,
      <<2017, 6, 1, 24, 0, 0>>, <<2017, 6, 1, 0, 60, 0>>, <<2017, 6, 1, 0, 0, 60>> }

\* The line of a table of the given layout for a date and time.
LineOf(cols, q) ==
    LET line == CsvRow(q[1], q[2], q[3], q[4], q[5], q[6])
    IN  [j \in 1..Len(cols) |-> IF j <= Len(line) THEN line[j] ELSE 0]

\* The arguments of scrub_l1b.
ScrubInputs ==
    { [cols  |-> cols,
       rows  |-> [i \in 1..Len(qs) |-> LineOf(cols, qs[i])],
       index |-> [i \in 1..Len(qs) |-> i - 1]] :
        cols \in ColumnLayouts, qs \in SeqsUpTo(DateTuples, MaxRows) }

InitScrub ==
    /\ scIn \in ScrubInputs
    /\ scOut = NoData
    /\ scErr = ""
    /\ scPc = "call"
    /\ TranslateIdle
    /\ CleanIdle
    /\ DownloadIdle
    /\ LoadIdle

\* scrub_l1b(data) returns (98).
ScrubReturn ==
    /\ scPc = "call"
    /\ ScrubL1b(scIn).ok
    /\ scOut' = ScrubL1b(scIn).val
    /\ scPc' = "returned"
    /\ UNCHANGED <<scIn, scErr>>
    /\ UNCHANGED <<dlVars, ldVars, trVars, clVars>>

\* scrub_l1b(data) raises (92-95).
ScrubRaise ==
    /\ scPc = "call"
    /\ ~ScrubL1b(scIn).ok
    /\ scErr' = ScrubL1b(scIn).err
    /\ scPc' = "raised"
    /\ UNCHANGED <<scIn, scOut>>
    /\ UNCHANGED <<dlVars, ldVars, trVars, clVars>>

NextScrub == ScrubReturn \/ ScrubRaise

SpecScrub == InitScrub /\ [][NextScrub]_vars

----------------------------------------------------------------------------
\* The metadata translation tables of netcdf_gen.py (export) and of load
\* (tags other than 'l1b')

\* meta_dict of netcdf_gen.py (65-74): the names each label is written
\* under.
ExportTable ==
    << [label |-> "min_val",  names |-> << "VALIDMIN" >>],
       [label |-> "max_val",  names |-> << "VALIDMAX" >>],
       [label |-> "units",    names |-> << "UNITS" >>],
       [label |-> "name",     names |-> << "CATDESC", "LABLAXIS", "FIELDNAM" >>],
       [label |-> "notes",    names |-> << "VAR_NOTES" >>],
       [label |-> "fill_val", names |-> << "_FillValue" >>],
       [label |-> "Depend_0", names |-> << "DEPEND_0" >>],
       [label |-> "Format",   names |-> << "FORMAT" >>],
       [label |-> "Monoton",  names |-> << "MONOTON" >>],
       [label |-> "Var_Type", names |-> << "VAR_TYPE" >>] >>

LoadTableLongName ==
    << [name |-> "VALIDMIN",   label |-> "min_val"],
       [name |-> "VALIDMAX",   label |-> "max_val"],
       [name |-> "UNITS",      label |-> "units"],
       [name |-> "LONGNAME",   label |-> "name"],
       [name |-> "VAR_NOTES",  label |-> "notes"],
       [name |-> "_FillValue", label |-> "fill_val"] >>

\* meta_dict of load (aero_reach.py 117-122): the label each name of the
\* file is read into.
LoadTable ==
    << [name |-> "VALIDMIN",   label |-> "min_val"],
       [name |-> "VALIDMAX",   label |-> "max_val"],
       [name |-> "UNITS",      label |-> "units"],
       [name |-> "CATDESC",    label |-> "name"],
       [name |-> "VAR_NOTES",  label |-> "notes"],
       [name |-> "_FillValue", label |-> "fill_val"] >>

\* The names a label is written under: those of the table, or the label
\* itself when the table does not hold it.
ExportNames(label) ==
    IF \E n \in 1..Len(ExportTable) : ExportTable[n].label = label
    THEN ExportTable[CHOOSE n \in 1..Len(ExportTable) : ExportTable[n].label = label].names
    ELSE << label >>

\* inst_to_netcdf(..., meta_translation=meta_dict): the attributes written
\* for an annotation.
RECURSIVE ExportAttrs(_)
ExportAttrs(attrs) ==
    IF attrs = << >> THEN << >>
    ELSE LET last == attrs[Len(attrs)]
         IN  ExportAttrs(SubSeq(attrs, 1, Len(attrs) - 1))
             \o [i \in 1..Len(ExportNames(last.label)) |->
                    [name |-> ExportNames(last.label)[i], val |-> last.val]]

\* The label a name of the file is read into: that of the table, or the
\* name itself.
LoadLabel(name) ==
    IF \E n \in 1..Len(LoadTable) : LoadTable[n].name = name
    THEN LoadTable[CHOOSE n \in 1..Len(LoadTable) : LoadTable[n].name = name].label
    ELSE name

\* load_netcdf(..., meta_translation=meta_dict): the annotation read from
\* the attributes of the file.
RECURSIVE LoadAttrs(_)
LoadAttrs(file) ==
    IF file = << >> THEN << >>
    ELSE LET last == file[Len(file)]
             rest == LoadAttrs(SubSeq(file, 1, Len(file) - 1))
         IN  IF HasLabel(rest, LoadLabel(last.name))
             THEN [i \in 1..Len(rest) |->
                      IF rest[i].label = LoadLabel(last.name)
                      THEN [label |-> rest[i].label, val |-> last.val]
                      ELSE rest[i]]
             ELSE Append(rest, [label |-> LoadLabel(last.name), val |-> last.val])

\* The annotations generate_metadata builds.
Annotations == { MetaData[i].v : i \in 1..Len(MetaData) }

InitTranslate ==
    /\ trIn \in Annotations
    /\ trFile = << >>
    /\ trOut = << >>
    /\ trPc = "record"
    /\ ScrubIdle
    /\ CleanIdle
    /\ DownloadIdle
    /\ LoadIdle

\* netcdf_gen.py 77-80: the record is written.
Export ==
    /\ trPc = "record"
    /\ trFile' = ExportAttrs(trIn)
    /\ trPc' = "file"
    /\ UNCHANGED <<trIn, trOut>>
    /\ UNCHANGED <<dlVars, ldVars, scVars, clVars>>

\* aero_reach.py 123-124: the file is loaded.
Reload ==
    /\ trPc = "file"
    /\ trOut' = LoadAttrs(trFile)
    /\ trPc' = "loaded"
    /\ UNCHANGED <<trIn, trFile>>
    /\ UNCHANGED <<dlVars, ldVars, scVars, clVars>>

NextTranslate == Export \/ Reload

SpecTranslate == InitTranslate /\ [][NextTranslate]_vars

----------------------------------------------------------------------------
\* clean (aero_reach.py 150-161)

\* np.nan
NanValue == [t |-> "float", s |-> "nan"]

\* self.meta[key, self.meta.labels.fill_val]: the fill value of the field's
\* annotation, and NaN for a field annotated without one.
FillOf(key) ==
    IF HasLabel(Get(MetaData, key), "fill_val")
    THEN LabelOf(Get(MetaData, key), "fill_val")
    ELSE NanValue

\* The values self.clean_level takes.
CleanLevels == {"clean", "dusty", "none"}

\* The columns of the records cleaned here: one annotated without a fill
\* value, one with the integer fill value -999, two with the float fill
\* value -1.0e31.
CleanColumns == << "mjd", "year", "inv_lat", "alpha_eq" >>

\* The values a column holds: its fill value (NaN where it has none) and
\* another value.
ColumnValues(key) ==
    { FillOf(key),
      IF FillOf(key).t = "int" THEN [t |-> "int", s |-> "2017"]
      ELSE [t |-> "float", s |-> "57.5"] }

\* A column of n values.
ColumnsOf(key, n) ==
    { [key |-> key, vals |-> vals] : vals \in [1..n -> ColumnValues(key)] }

\* The records: every column holds the same number of values.
CleanInputs ==
    UNION { { <<c1, c2, c3, c4>> : c1 \in ColumnsOf(CleanColumns[1], n),
                                   c2 \in ColumnsOf(CleanColumns[2], n),
                                   c3 \in ColumnsOf(CleanColumns[3], n),
                                   c4 \in ColumnsOf(CleanColumns[4], n) }
            : n \in 0..MaxRows }

InitClean ==
    /\ clLevel \in CleanLevels
    /\ clData \in CleanInputs
    /\ clFill = [j \in 1..Len(CleanColumns) |-> FillOf(CleanColumns[j])]
    /\ clIdx = 1
    /\ clPc = "call"
    /\ clBefore = [data |-> clData, fill |-> clFill]
    /\ ScrubIdle
    /\ TranslateIdle
    /\ DownloadIdle
    /\ LoadIdle

IsNumber(fill) == fill.t \in {"float", "int"}

\* type(fill) == float (157)
IsFloat(fill) == fill.t = "float"

\* self[key] == fill, for one value: NaN equals nothing.
EqualsFill(val, fill) == val.s = fill.s /\ val.s # "nan" /\ fill.s # "nan"

\* Lines 158-159: the values equal to fill become NaN.
Scrubbed(vals, fill) ==
    [i \in 1..Len(vals) |-> IF EqualsFill(vals[i], fill) THEN NanValue ELSE vals[i]]

\* One iteration of the loop of line 154 (155-160).
CleanColumn ==
    /\ clPc = "call"
    /\ clLevel = "clean"
    /\ clIdx <= Len(clData)
    /\ IF clData[clIdx].key # "Epoch" /\ IsFloat(clFill[clIdx])
       THEN /\ clData' = [clData EXCEPT ![clIdx].vals = Scrubbed(@, clFill[clIdx])]
            /\ clFill' = [clFill EXCEPT ![clIdx] = NanValue]
       ELSE UNCHANGED <<clData, clFill>>
    /\ clIdx' = clIdx + 1
    /\ UNCHANGED <<clLevel, clPc, clBefore>>
    /\ UNCHANGED <<dlVars, ldVars, scVars, trVars>>

\* Line 161, or the end of the function when clean_level is not 'clean'.
CleanReturn ==
    /\ clPc = "call"
    /\ clLevel # "clean" \/ clIdx > Len(clData)
    /\ clPc' = "done"
    /\ UNCHANGED <<clLevel, clData, clFill, clIdx, clBefore>>
    /\ UNCHANGED <<dlVars, ldVars, scVars, trVars>>

NextClean == CleanColumn \/ CleanReturn

SpecClean == InitClean /\ [][NextClean]_vars

----------------------------------------------------------------------------
\* Properties of download

\* The (year, month) pairs that occur in date_array.
Requested == { MonthOf(dateArray[k]) : k \in 1..Len(dateArray) }

FetchedSet == { fetched[i] : i \in 1..Len(fetched) }

FetchCount(furl) == Cardinality({ i \in 1..Len(fetched) : fetched[i] = furl })

\* The call is over: it returned, or an error left it.
Over == pc \in {"done", "raised"}

\* n is reach.<8 characters>.vid-<3 characters>.l1b.v<1 digit>.csv, for each
\* name of FileNames (evaluated once).
MatchTable ==
    [n \in { FileNames[i] : i \in 1..Len(FileNames) } |->
       /\ Len(n) = MaxLen
       /\ \A j \in 1..Len(SearchBlocks) :
             SubSeq(n, BeginKey(j) - Len(SearchBlocks[j]) + 1, BeginKey(j))
               = SearchBlocks[j]
       /\ IsDigits(FieldOf(n, "version"))]

MatchesGrammar(name) == MatchTable[name]

\* The vehicle id in a name, for each name of FileNames (evaluated once).
VidTable == [n \in { FileNames[i] : i \in 1..Len(FileNames) } |-> FieldOf(n, "inst_id")]

\* The response download met for a URL it fetched.
Met(furl) == remote[furl]

\* The extract calls made on the archive fetched from furl.
ExtractedFrom(furl) == { e \in extracted : url \o e.zip = furl }

\* C1: a month whose fetch answers 404 raises nothing and extracts nothing,
\* and the months whose fetch answers an archive have every member that
\* matches the grammar extracted and on disk: a call that met only 404s and
\* archives returns normally, having fetched every requested month.
C1_NotFoundSkipped ==
    /\ \A furl \in FetchedSet :
          /\ Met(furl).kind = "notfound" => ExtractedFrom(furl) = {}
          /\ Met(furl).kind = "archive" =>
                \A n \in 1..Len(Met(furl).names) :
                   MatchesGrammar(Met(furl).names[n]) =>
                      \E e \in ExtractedFrom(furl) :
                         /\ e.file = Met(furl).names[n]
                         /\ [dir |-> e.dir, file |-> e.file] \in disk
    /\ (\A furl \in FetchedSet : Met(furl).kind \in {"notfound", "archive"})
          => /\ pc # "raised"
             /\ pc = "done" => FetchedSet = { Furl(m) : m \in Requested }

\* A call over several months returned; one month answered 404, another an
\* archive whose data files were extracted.
C1_Witness ==
    /\ pc = "done"
    /\ Cardinality(Requested) >= 2
    /\ \E furl \in FetchedSet : Met(furl).kind = "notfound"
    /\ \E furl \in FetchedSet : Met(furl).kind = "archive" /\ ExtractedFrom(furl) # {}
    /\ fetched[1] \in { furl \in FetchedSet : Met(furl).kind = "notfound" }

\* C2: inst_id is ignored. The second call, which differs from the first
\* only in inst_id, ends the same way having fetched the same URLs in the
\* same order and extracted the same members into the same directories; and
\* every member of every fetched archive is extracted, whatever its vehicle.
C2_InstIdIgnored ==
    /\ (prev # NoCall /\ Over) =>
          /\ pc = prev.pc
          /\ fetched = prev.fetched
          /\ extracted = prev.extracted
    /\ \A furl \in FetchedSet :
          Met(furl).kind = "archive" =>
             \A n \in 1..Len(Met(furl).names) :
                \E e \in ExtractedFrom(furl) : e.file = Met(furl).names[n]

\* The second call is over and extracted a data file of a vehicle that is
\* not the one it was called for.
C2_Witness ==
    /\ prev # NoCall
    /\ pc = "done"
    /\ \E e \in extracted :
          MatchesGrammar(e.file) /\ VidTable[e.file] # instId

\* C3 as stated: whatever the outcome of the fetches, a call that is over
\* has fetched every requested month exactly once and nothing else.
C3_Original ==
    Over => /\ \A m \in Requested : FetchCount(Furl(m)) = 1
            /\ FetchedSet \subseteq { Furl(m) : m \in Requested }

\* The months of date_array that come after m.
Later(m) == { l \in Requested : MonthLess(m, l) }

\* C3, amended: no URL is fetched twice, and only URLs of requested months
\* are fetched; a call that returns has fetched every requested month
\* exactly once; a call that an error left has fetched the months up to the
\* failing one once each and the later months not at all.
C3_OneFetchPerMonth ==
    /\ \A furl \in FetchedSet : FetchCount(furl) = 1
    /\ FetchedSet \subseteq { Furl(m) : m \in Requested }
    /\ pc = "done" => /\ \A m \in Requested : FetchCount(Furl(m)) = 1
                      /\ Len(fetched) = Cardinality(Requested)
    /\ pc = "raised" =>
          \E f \in Requested :
             /\ fetched[Len(fetched)] = Furl(f)
             /\ \A m \in Requested :
                   FetchCount(Furl(m)) = IF MonthLess(f, m) THEN 0 ELSE 1

\* A call with two dates in one month and a date in another returned.
C3_Witness ==
    /\ pc = "done"
    /\ Len(dateArray) > Cardinality(Requested)
    /\ Cardinality(Requested) >= 2
    /\ \E furl \in FetchedSet : Met(furl).kind = "notfound"

\* C4 as stated: of a fetched archive, exactly the members that match the
\* grammar are extracted, each under <data_path[:-4]>/<the id in its name>.
C4_Original ==
    \A furl \in FetchedSet :
       Met(furl).kind = "archive" =>
          /\ \A n \in 1..Len(Met(furl).names) :
                MatchesGrammar(Met(furl).names[n])
                   <=> \E e \in ExtractedFrom(furl) : e.file = Met(furl).names[n]
          /\ \A e \in ExtractedFrom(furl) :
                e.dir = PathJoin(ExtractBase(dataPath), VidTable[e.file])

\* C5: an error other than a 404 leaves download at once. The failing month
\* was fetched once and is the last fetch of the call, no later month is
\* fetched, nothing is extracted from the failing response, and everything
\* the call extracted from the earlier months is still on disk.
C5_ErrorPropagates ==
    /\ \A furl \in FetchedSet :
          Met(furl).kind \in {"connerr", "notzip"} =>
             /\ pc = "raised"
             /\ fetched[Len(fetched)] = furl
             /\ FetchCount(furl) = 1
             /\ ExtractedFrom(furl) = {}
    /\ pc = "raised" =>
          /\ Met(fetched[Len(fetched)]).kind \in {"connerr", "notzip"}
          /\ \A m \in Requested :
                MonthLess(dlArray[idx], m) => Furl(m) \notin FetchedSet
          /\ \A e \in extracted : [dir |-> e.dir, file |-> e.file] \in disk
          /\ \A furl \in FetchedSet :
                Met(furl).kind = "archive" =>
                   /\ Extraction(Met(furl), dataPath) \subseteq disk
                   /\ Cardinality(ExtractedFrom(furl)) = Len(Met(furl).names)

\* An error left the call in its second month, with files of the first month
\* extracted and a later month still to fetch.
C5_Witness ==
    /\ pc = "raised"
    /\ Len(fetched) >= 2
    /\ extracted # {}
    /\ \E m \in Requested : Furl(m) \notin FetchedSet

----------------------------------------------------------------------------
\* Properties of load

\* load has returned on the l1b branch.
Loaded == lpc = "done" /\ tag = "l1b"

\* generate_header has returned a header to load.
HeaderReturned == lpc \in {"header", "done"} /\ tag = "l1b"

\* The rows of the reference table for the payload of the call.
RowsOfPayload == { i \in 1..Len(pods) : pods[i].hpl = IntOfDigits(loadInstId) }

\* C6: for tag 'l1b' load reads the first file of fnames and no other, and
\* the table it returns is the one it returns for any other non-empty list
\* with the same first element.
C6_FirstFileOnly ==
    /\ (tag = "l1b" /\ fnames # << >>) =>
          \A i \in 1..Len(readLog) : readLog[i] = fnames[1]
    /\ Loaded =>
          /\ readLog = << fnames[1] >>
          /\ \A other \in FileLists :
                (other # << >> /\ other[1] = fnames[1]) =>
                    data = ScrubL1b(ReadCsv(FirstFile(other))).val

C6_Witness ==
    /\ Loaded
    /\ Len(fnames) = 2
    /\ fnames[2] # fnames[1]
    /\ readLog = << fnames[1] >>
    /\ Len(data.index) = 2

\* C7: when no row of the reference table has the payload number
\* int(inst_id), generate_header returns no header: load ends at that call
\* with an IndexError.
C7_NoRowNoHeader ==
    (tag = "l1b" /\ RowsOfPayload = {}) =>
        /\ ~HeaderReturned
        /\ header = << >>
        /\ (lpc = "raised" /\ lerr.at = "generate_header") => lerr.err = "IndexError"

C7_Witness ==
    /\ tag = "l1b"
    /\ pods # << >>
    /\ RowsOfPayload = {}
    /\ lpc = "raised"
    /\ lerr = [at |-> "generate_header", err |-> "IndexError"]

\* The codes of the first row of the payload are the documented ones.
CodesDocumented ==
    LET row == pods[CHOOSE i \in RowsOfPayload : \A j \in RowsOfPayload : i <= j]
    IN  /\ row.a \in {0, 1, 2}
        /\ row.b \in {0, 1, 2}
        /\ row.m \in {"A", "M"}
        /\ row.t \in {0, 1}

\* C8 as stated: generate_header returns a header only when every code of
\* the row is a documented one.
C8_Original == HeaderReturned => CodesDocumented

\* C9: the header generate_header returns holds Project, PI_name,
\* Data_version and Logical_source, each a non-empty string.
C9_RequiredKeys ==
    HeaderReturned =>
        \A key \in {"Project", "PI_name", "Data_version", "Logical_source"} :
            /\ HasKey(header, key)
            /\ Get(header, key).t = "str"
            /\ Get(header, key).s # ""

C9_Witness ==
    /\ HeaderReturned
    /\ HasKey(header, "Hosted_Payload_Number")
    /\ HasKey(header, "A_Dosimeter_Type")
    /\ ~ \E key \in Keys(header) : Contains(key, "Placeholder")
    /\ Get(header, "Logical_source").s = "reach.20170601.vid-" \o loadInstId \o ".l1b.v3"

\* The canonical names of scrub_l1b's rename table.
CanonicalNames == { RenameColumns[j][2] : j \in 1..Len(RenameColumns) }

\* C10: the fields generate_metadata annotates are the canonical names of
\* scrub_l1b's rename table, and the coded fields carry a non-empty notes
\* legend.
C10_FieldCoverage ==
    Loaded =>
        /\ Keys(meta.data) = CanonicalNames
        /\ \A c \in 1..Len(data.cols) : data.cols[c] \in Keys(meta.data)
        /\ \A f \in {"species1", "species2", "region_code", "orbit_status", "flag"} :
              /\ f \in CanonicalNames
              /\ HasKey(meta.data, f)
              /\ HasLabel(Get(meta.data, f), "notes")
              /\ LabelOf(Get(meta.data, f), "notes").t = "str"
              /\ LabelOf(Get(meta.data, f), "notes").s # ""

C10_Witness ==
    /\ Loaded
    /\ meta.header = header
    /\ HasKey(meta.data, "flag")
    /\ LabelOf(Get(meta.data, "mjd"), "SCALETYP").s = "linear"

----------------------------------------------------------------------------
\* Properties of scrub_l1b

\* The keys of the rename table.
RenameKeys == { RenameColumns[j][1] : j \in 1..Len(RenameColumns) }

AllCanonical(cols) == \A j \in 1..Len(cols) : cols[j] \in CanonicalNames

\* C11: a column that is no key of the rename table keeps its name, no
\* canonical name is a key, and a table whose columns are already canonical
\* comes back with every column name unchanged.
C11_RenameIdempotent ==
    /\ CanonicalNames \cap RenameKeys = {}
    /\ scPc = "returned" =>
          /\ Len(scOut.cols) = Len(scIn.cols)
          /\ \A j \in 1..Len(scIn.cols) :
                scIn.cols[j] \notin RenameKeys => scOut.cols[j] = scIn.cols[j]
          /\ AllCanonical(scIn.cols) => scOut.cols = scIn.cols
          /\ \A j \in 1..Len(scOut.cols) : RenameColumn(scOut.cols[j]) = scOut.cols[j]

C11_Witness ==
    /\ scPc = "returned"
    /\ AllCanonical(scIn.cols)
    /\ scOut.cols = scIn.cols
    /\ Len(scIn.rows) = 2

\* The value line i of a table holds in the date column of the given raw or
\* canonical name.
DateValue(tbl, i, raw, canonical) ==
    tbl.rows[i][CHOOSE j \in 1..Len(tbl.cols) : tbl.cols[j] \in {raw, canonical}]

\* Line i of a table holds a date and time of the calendar.
CalendarLine(tbl, i) ==
    LET y == DateValue(tbl, i, "YYYY", "year")
        mo == DateValue(tbl, i, "mm", "month")
        d == DateValue(tbl, i, "DD", "day")
    IN  /\ y \in 1..9999
        /\ mo \in 1..12
        /\ d >= 1
        /\ d <= (IF mo \in {4, 6, 9, 11} THEN 30
                 ELSE IF mo # 2 THEN 31
                 ELSE IF (y % 4 = 0 /\ y % 100 # 0) \/ y % 400 = 0 THEN 29 ELSE 28)
        /\ DateValue(tbl, i, "HH", "hour") \in 0..23
        /\ DateValue(tbl, i, "MM", "minute") \in 0..59
        /\ DateValue(tbl, i, "SEC", "seconds") \in 0..59

AllCalendar(tbl) == \A i \in 1..Len(tbl.rows) : CalendarLine(tbl, i)

\* C12: for a table whose lines hold valid calendar values scrub_l1b
\* returns, its index holds one timestamp per line whose six fields are the
\* line's six date columns, and none of YYYY, mm, DD, HH, MM, SEC is a
\* column of the result.
C12_EpochPerRow ==
    /\ (scPc # "call" /\ AllCalendar(scIn)) => scPc = "returned"
    /\ scPc = "returned" =>
          /\ Len(scOut.index) = Len(scIn.rows)
          /\ scOut.rows = scIn.rows
          /\ \A i \in 1..Len(scIn.rows) :
                /\ scOut.index[i].year = DateValue(scIn, i, "YYYY", "year")
                /\ scOut.index[i].month = DateValue(scIn, i, "mm", "month")
                /\ scOut.index[i].day = DateValue(scIn, i, "DD", "day")
                /\ scOut.index[i].hour = DateValue(scIn, i, "HH", "hour")
                /\ scOut.index[i].minute = DateValue(scIn, i, "MM", "minute")
                /\ scOut.index[i].second = DateValue(scIn, i, "SEC", "seconds")
          /\ \A j \in 1..Len(scOut.cols) :
                scOut.cols[j] \notin {"YYYY", "mm", "DD", "HH", "MM", "SEC"}

C12_Witness ==
    /\ scPc = "returned"
    /\ scIn.cols = CsvColumns
    /\ Len(scOut.index) = 2
    /\ scOut.index[1] = Datetime(2017, 6, 1, 0, 0, 0)
    /\ scOut.index[2] = Datetime(2016, 2, 29, 23, 59, 59)

\* C13: when a line of the file load reads holds a value outside the
\* calendar in one of the six date columns, scrub_l1b raises, the error
\* leaves load uncaught, and load returns nothing: no table with a partly
\* built index, no header, no metadata.
C13_BadDatePropagates ==
    (/\ tag = "l1b"
     /\ fnames # << >>
     /\ ~AllCalendar(ReadCsv(fnames[1]))
     /\ lpc \notin {"call", "read"}) =>
        /\ lpc = "raised"
        /\ lerr = [at |-> "scrub_l1b", err |-> "ValueError"]
        /\ data = ReadCsv(fnames[1])
        /\ header = << >>
        /\ meta = NoMeta

C13_Witness ==
    /\ tag = "l1b"
    /\ lpc = "raised"
    /\ lerr = [at |-> "scrub_l1b", err |-> "ValueError"]
    /\ Len(data.rows) = 2
    /\ CalendarLine(data, 1)
    /\ ~CalendarLine(data, 2)

\* C14 as stated: for a fixed inst_id and reference table generate_header
\* returns the same header for every epoch and at every call time.
C14_Original ==
    HeaderReturned =>
        \A e \in FirstEpochs, c \in Clocks :
            HeaderTable[loadInstId, e, c, pods].val = header

\* The keys whose values generate_header computes from the epoch and from
\* the clock.
TimedKeys == {"Logical_source", "Generation_datetime"}

\* C14, amended: for a fixed inst_id and reference table the headers
\* generate_header returns for any epoch and call time hold the same keys
\* in the same order and the same value under every key but Logical_source
\* and Generation_datetime.
C14_ConstantButTimedKeys ==
    HeaderReturned =>
        \A e \in FirstEpochs, c \in Clocks :
            LET other == HeaderTable[loadInstId, e, c, pods]
            IN  /\ other.ok
                /\ Len(other.val) = Len(header)
                /\ \A i \in 1..Len(header) :
                      /\ other.val[i].k = header[i].k
                      /\ header[i].k \notin TimedKeys => other.val[i].v = header[i].v

C14_Witness ==
    /\ HeaderReturned
    /\ \E e \in FirstEpochs, c \in Clocks :
          /\ e # data.index[1]
          /\ c # clock
          /\ Get(HeaderTable[loadInstId, e, c, pods].val, "Logical_source")
                # Get(header, "Logical_source")
          /\ Get(HeaderTable[loadInstId, e, c, pods].val, "Generation_datetime")
                # Get(header, "Generation_datetime")
          /\ Get(HeaderTable[loadInstId, e, c, pods].val, "Source_name")
                = Get(header, "Source_name")

\* The characters of an identifier.
IdentifierChars == "abcdefghijklmnopqrstuvwxyzABCDEFGHIJKLMNOPQRSTUVWXYZ0123456789_"

IdentifierSafe(key) ==
    \A i \in 1..Len(key) : Contains(IdentifierChars, CharAt(key, i))

\* C15 as stated: every key of the header generate_header returns holds
\* letters, digits and underscores only.
C15_Original == HeaderReturned => \A key \in Keys(header) : IdentifierSafe(key)

\* The attributes the literal entry of a field defines.
LiteralOf(field) ==
    MetaAssignments[CHOOSE n \in 1..Len(MetaAssignments) :
                        MetaAssignments[n].field = field].attrs

LiteralLabels(field) == { LiteralOf(field)[i].label : i \in 1..Len(LiteralOf(field)) }

AttributeLabels(attrs) == { attrs[i].label : i \in 1..Len(attrs) }

\* C16 as stated: in the table generate_metadata returns a field carries
\* only the attributes its literal entry defines.
C16_Original ==
    Loaded =>
        \A field \in Keys(meta.data) :
            AttributeLabels(Get(meta.data, field)) \subseteq LiteralLabels(field)

\* C16, amended: in the table generate_metadata returns a field carries
\* every attribute of its literal entry with the literal's value, and a
\* SCALETYP besides: the literal's when it gives one, 'linear' when it does
\* not.
C16_LiteralAndScaleType ==
    Loaded =>
        \A field \in Keys(meta.data) :
            LET attrs == Get(meta.data, field)
            IN  /\ \A i \in 1..Len(LiteralOf(field)) :
                      /\ HasLabel(attrs, LiteralOf(field)[i].label)
                      /\ LabelOf(attrs, LiteralOf(field)[i].label) = LiteralOf(field)[i].val
                /\ HasLabel(attrs, "SCALETYP")
                /\ "SCALETYP" \notin LiteralLabels(field) =>
                      LabelOf(attrs, "SCALETYP") = [t |-> "str", s |-> "linear"]

C16_Witness ==
    /\ Loaded
    /\ "SCALETYP" \notin LiteralLabels("year")
    /\ LabelOf(Get(meta.data, "year"), "SCALETYP").s = "linear"
    /\ \E field \in Keys(meta.data) :
          LabelOf(Get(meta.data, field), "SCALETYP").s = "log"

----------------------------------------------------------------------------
\* Properties of the translation tables

\* The six labels of an annotation.
SixLabels == {"min_val", "max_val", "units", "name", "notes", "fill_val"}

\* C17: for each of the six labels the name load reads into it is one of
\* the names netcdf_gen writes it under, and an annotation written and
\* loaded again holds each of the six labels it held, with its value.
C17_TablesAgree ==
    /\ \A label \in SixLabels :
          \E n \in 1..Len(LoadTable), m \in 1..Len(ExportTable) :
              /\ LoadTable[n].label = label
              /\ ExportTable[m].label = label
              /\ \E i \in 1..Len(ExportTable[m].names) :
                    ExportTable[m].names[i] = LoadTable[n].name
    /\ trPc = "loaded" =>
          \A label \in SixLabels :
              HasLabel(trIn, label) =>
                  /\ HasLabel(trOut, label)
                  /\ LabelOf(trOut, label) = LabelOf(trIn, label)

C17_Witness ==
    /\ trPc = "loaded"
    /\ HasLabel(trIn, "name")
    /\ HasLabel(trIn, "notes")
    /\ HasLabel(trIn, "fill_val")
    /\ \E i \in 1..Len(trFile) : trFile[i].name = "FIELDNAM"
    /\ LabelOf(trOut, "name") = LabelOf(trIn, "name")

----------------------------------------------------------------------------
\* Properties of download's temporary directory

\* C18 as stated: on every exit from download, a return or an error, the
\* temporary directory the call created has been removed.
C18_Original == pc \in {"done", "raised"} => tempDir = "removed"

----------------------------------------------------------------------------
\* Properties of clean

\* Value i of column j was, when clean was called, the float fill value of
\* its column.
WasFloatFill(j, i) ==
    /\ clBefore.fill[j].t = "float"
    /\ clBefore.fill[j].s # "nan"
    /\ clBefore.data[j].vals[i] = clBefore.fill[j]

\* C19: clean changes nothing when clean_level is not 'clean'; when it is
\* 'clean' it changes no value but those equal to the float fill value of
\* their column, which are NaN when it returns, with the fill value of a
\* column whose fill value is a float set to NaN; columns with another fill
\* value, such as the integer -999, keep their values and their fill value.
C19_OnlyFillScrubbed ==
    /\ clLevel # "clean" => (clData = clBefore.data /\ clFill = clBefore.fill)
    /\ \A j \in 1..Len(clData) :
          /\ clData[j].key = clBefore.data[j].key
          /\ Len(clData[j].vals) = Len(clBefore.data[j].vals)
          /\ \A i \in 1..Len(clData[j].vals) :
                \/ clData[j].vals[i] = clBefore.data[j].vals[i]
                \/ WasFloatFill(j, i) /\ clData[j].vals[i] = NanValue
          /\ clBefore.fill[j].t # "float" =>
                (clData[j] = clBefore.data[j] /\ clFill[j] = clBefore.fill[j])
    /\ (clPc = "done" /\ clLevel = "clean") =>
          \A j \in 1..Len(clData) :
              /\ \A i \in 1..Len(clData[j].vals) :
                    WasFloatFill(j, i) => clData[j].vals[i] = NanValue
              /\ clBefore.fill[j].t = "float" => clFill[j] = NanValue

C19_Witness ==
    /\ clPc = "done"
    /\ clLevel = "clean"
    /\ Len(clData[1].vals) = 2
    /\ \E j \in 1..Len(clData) : WasFloatFill(j, 1) /\ ~WasFloatFill(j, 2)
                                 /\ clData[j].vals[1] = NanValue
                                 /\ clData[j].vals[2] = clBefore.data[j].vals[2]
    /\ \E j \in 1..Len(clData) : /\ clBefore.fill[j] = [t |-> "int", s |-> "-999"]
                                 /\ clData[j].vals[1] = clBefore.fill[j]
                                 /\ clFill[j] = clBefore.fill[j]

============================================================================
